---- MODULE Spec2Model ----
(***************************************************************************)
(* Escrow-and-exchange program (processor.rs): InitEscrow and Exchange     *)
(* over a ledger of native-value accounts, token accounts and escrow       *)
(* records.  One action is one invocation, executed as one transaction:    *)
(* the handler runs on a working copy of the ledger, and the working copy  *)
(* is committed only when the handler returns Ok.                          *)
(***************************************************************************)
EXTENDS Integers, Sequences, FiniteSets, TLC

(***************************************************************************)
(* Identities                                                              *)
(***************************************************************************)
\* processor.rs:18, the configured fee recipient
SALES_TAX_RECIPIENT_INTERNAL == "fee"
\* the Delegated Authority, find_program_address(["escrow"], program_id)
pda == "pda"
\* Pubkey::default(), the all-zero identity of a zeroed record
DefaultPubkey == "default"

Users == {"alice", "bob"}
Creators == {"carol", "dave"}
Wallets == Users \cup Creators \cup {SALES_TAX_RECIPIENT_INTERNAL}
Escrows == {"e1", "e2", "e3"}
\* the record slot created with too small a balance to be rent exempt
Underfunded == "e3"
TokenAccts == {"ta", "tb", "tc"}
\* token accounts offered as held account, and as the taker's destination
HeldAccts == {"ta", "tb"}
DestAccts == {"tb", "tc"}
Mints == {"m1", "m2"}
Accounts == Wallets \cup Escrows \cup TokenAccts

(***************************************************************************)
(* Program constants                                                       *)
(***************************************************************************)
SALES_TAX == 250
LISTING_FEE == 10000000
\* Escrow::LEN, the fixed record length: the flag byte, three 32-byte
\* identities and the 8-byte amount
EscrowLEN == 1 + 32 + 32 + 32 + 8

(***************************************************************************)
(* Bounds of the model                                                     *)
(***************************************************************************)
\* units of the mint in circulation
MaxSupply == 2

\* mint precisions explored: 10^20 and 10^64 do not fit 64 bits
DecimalsSet == {0, 20, 64}
\* prices an initializer may ask
PriceSet == {0, 1000}
\* amounts a taker may state
TakerAmounts == {0, 1, 2}
\* amounts minted in one mint_tokens_to
MintAmounts == {1}

(***************************************************************************)
(* 64-bit words as 8 little-endian bytes                                   *)
(***************************************************************************)
\* u64::to_le_bytes, for words below 2^31: the four high bytes are zero
ToBytes(n) ==
    <<n % 256, (n \div 256) % 256, (n \div 65536) % 256, (n \div 16777216) % 256,
      0, 0, 0, 0>>

\* u64::from_le_bytes, for words below 2^31
FromBytes(b) == b[1] + 256 * b[2] + 65536 * b[3] + 16777216 * b[4]

RECURSIVE MulSmall(_, _, _)
\* b * m + carry on Len(b) bytes; the last element is the carry out
MulSmall(b, m, carry) ==
    IF b = <<>> THEN <<carry>>
    ELSE LET v == Head(b) * m + carry
         IN  <<v % 256>> \o MulSmall(Tail(b), m, v \div 256)

RECURSIVE Pow10From(_, _, _)
\* d further multiplications by ten of the 64-bit word b
Pow10From(b, overflow, d) ==
    IF d = 0 THEN [bytes |-> b, overflow |-> overflow]
    ELSE LET r == MulSmall(b, 10, 0)
         IN  IF r[9] # 0 THEN Pow10From(SubSeq(r, 1, 8), TRUE, d - 1)
             ELSE Pow10From(SubSeq(r, 1, 8), overflow, d - 1)

\* 10_usize.pow(d): [bytes |-> the wrapped 64-bit result, overflow |-> whether
\* some multiplication left the 64-bit range]
Pow10(d) == Pow10From(ToBytes(1), FALSE, d)

\* a 64-bit word as a 128-bit word
Wide(b) == b \o <<0, 0, 0, 0, 0, 0, 0, 0>>

\* the u64 product b * m: [bytes |-> the wrapped 64-bit result, overflow |->
\* whether the product left the 64-bit range]
MulWord(b, m) ==
    LET r == MulSmall(b, m, 0)
    IN  [bytes |-> SubSeq(r, 1, 8), overflow |-> r[9] # 0]

RECURSIVE DivSmall(_, _)
\* quotient and remainder of the little-endian number b divided by m
DivSmall(b, m) ==
    IF b = <<>> THEN [q |-> <<>>, r |-> 0]
    ELSE LET hi == DivSmall(Tail(b), m)
             cur == hi.r * 256 + Head(b)
         IN  [q |-> <<cur \div m>> \o hi.q, r |-> cur % m]

RECURSIVE SubFrom(_, _, _)
\* x - y - borrow on Len(x) bytes; the last element is the borrow out
SubFrom(x, y, borrow) ==
    IF x = <<>> THEN <<borrow>>
    ELSE LET v == Head(x) - Head(y) - borrow
         IN  <<(v + 256) % 256>> \o SubFrom(Tail(x), Tail(y), IF v < 0 THEN 1 ELSE 0)

\* the u64 difference x - y: [bytes |-> the wrapped 64-bit result, overflow |->
\* whether y exceeds x]
SubWord(x, y) ==
    LET r == SubFrom(x, y, 0)
    IN  [bytes |-> SubSeq(r, 1, 8), overflow |-> r[9] # 0]

RECURSIVE AddFrom(_, _, _)
\* x + y + carry on Len(x) bytes; the last element is the carry out
AddFrom(x, y, carry) ==
    IF x = <<>> THEN <<carry>>
    ELSE LET v == Head(x) + Head(y) + carry
         IN  <<v % 256>> \o AddFrom(Tail(x), Tail(y), v \div 256)

\* u64::checked_add: [bytes |-> the wrapped 64-bit sum, overflow |-> whether
\* the sum left the 64-bit range (checked_add returns None)]
AddWord(x, y) ==
    LET r == AddFrom(x, y, 0)
    IN  [bytes |-> SubSeq(r, 1, 8), overflow |-> r[9] # 0]

(***************************************************************************)
(* State                                                                   *)
(***************************************************************************)
VARIABLES
    lamports,         \* native balance of every account
    escrow_data,      \* packed Escrow record stored in every escrow account
    token,            \* token accounts: mint, owner (authority), amount, state
    decimals,         \* declared precision of every mint
    metadata,         \* content of the metadata account derived from every mint
    overflow_checks,  \* build profile: arithmetic overflow panics (TRUE) or wraps
    last,             \* the last invocation: op, arguments, result, calls issued
    calc              \* the paid-settlement arithmetic last carried out on 64-bit words

vars == <<lamports, escrow_data, token, decimals, metadata, overflow_checks, last, calc>>

\* the part of the state an invocation works on
Ledger == [lamports |-> lamports, escrow_data |-> escrow_data, token |-> token,
           issued |-> <<>>]

(***************************************************************************)
(* Escrow record (state.rs) and its codec                                  *)
(***************************************************************************)
\* Escrow::pack_into_slice: flag byte, three identities, LE amount
EscrowPack(e) ==
    [is_initialized |-> IF e.is_initialized THEN 1 ELSE 0,
     initializer_pubkey |-> e.initializer_pubkey,
     mint_pubkey |-> e.mint_pubkey,
     temp_token_account_pubkey |-> e.temp_token_account_pubkey,
     expected_amount |-> ToBytes(e.expected_amount)]

\* Escrow::unpack_from_slice: any flag byte other than 0 and 1 is invalid
EscrowUnpackUnchecked(d) ==
    IF d.is_initialized \notin {0, 1}
    THEN [err |-> "InvalidAccountData"]
    ELSE [err |-> "none",
          is_initialized |-> (d.is_initialized = 1),
          initializer_pubkey |-> d.initializer_pubkey,
          mint_pubkey |-> d.mint_pubkey,
          temp_token_account_pubkey |-> d.temp_token_account_pubkey,
          expected_amount |-> FromBytes(d.expected_amount)]

\* Pack::unpack: unpack_unchecked, then the record must be initialized
EscrowUnpack(d) ==
    LET e == EscrowUnpackUnchecked(d)
    IN  IF e.err # "none" THEN e
        ELSE IF ~e.is_initialized THEN [err |-> "UninitializedAccount"]
        ELSE e

\* vec![0_u8; Escrow::LEN], an empty record slot
ZeroedEscrow ==
    [is_initialized |-> 0, initializer_pubkey |-> DefaultPubkey,
     mint_pubkey |-> DefaultPubkey, temp_token_account_pubkey |-> DefaultPubkey,
     expected_amount |-> ToBytes(0)]

(***************************************************************************)
(* Metadata (metadata.rs)                                                  *)
(***************************************************************************)
\* get_metadata_account: the address derived from the mint
get_metadata_account(m) == <<"metadata", m>>

MetadataAccts == {get_metadata_account(m) : m \in Mints}

NoCreators == [some |-> FALSE, list |-> <<>>]
SomeCreators(l) == [some |-> TRUE, list |-> l]

\* contents a metadata account may have: absent or malformed bytes, or a record
\* with seller_fee_basis_points and Option<Vec<Creator>>
MetadataSet ==
    { [readable |-> FALSE, seller_fee_basis_points |-> 0, creators |-> NoCreators],
      [readable |-> TRUE, seller_fee_basis_points |-> 500,
       creators |-> SomeCreators(<<[address |-> "carol", share |-> 100]>>)],
      [readable |-> TRUE, seller_fee_basis_points |-> 500,
       creators |-> SomeCreators(<<[address |-> "carol", share |-> 60],
                                   [address |-> "dave", share |-> 40]>>)],
      [readable |-> TRUE, seller_fee_basis_points |-> 500, creators |-> NoCreators],
      [readable |-> TRUE, seller_fee_basis_points |-> 9800, creators |-> NoCreators] }

\* Metadata::from_u8
Metadata_from_u8(d) ==
    IF d.readable THEN [err |-> "none", data |-> d] ELSE [err |-> "InvalidMetadata"]

(***************************************************************************)
(* External services: rent, native transfers, token program                *)
(***************************************************************************)
\* Rent::default().minimum_balance(len)
RentMinimumBalance(len) == (128 + len) * 3480 * 2

\* rent.is_exempt(lamports, data_len)
RentIsExempt(l, len) == l >= RentMinimumBalance(len)

Call(kind, from, to, amount, auth) ==
    [kind |-> kind, from |-> from, to |-> to, amount |-> amount, auth |-> auth]

\* system_instruction::transfer through invoke
SysTransfer(w, from, to, amt) ==
    IF w.lamports[from] < amt
    THEN [err |-> "InsufficientLamports", w |-> w]
    ELSE [err |-> "none",
          w |-> [w EXCEPT !.lamports = [@ EXCEPT ![from] = @ - amt, ![to] = @ + amt],
                          !.issued = Append(@, Call("transfer", from, to, amt, from))]]

\* spl_token set_authority(AccountOwner)
TokenSetAuthority(w, acct, new, current) ==
    IF w.token[acct].state # "Initialized"
    THEN [err |-> "InvalidAccountData", w |-> w]
    ELSE IF w.token[acct].owner # current
    THEN [err |-> "OwnerMismatch", w |-> w]
    ELSE [err |-> "none",
          w |-> [w EXCEPT !.token[acct].owner = new,
                          !.issued = Append(@, Call("set_authority", acct, new, 0, current))]]

\* spl_token transfer
TokenTransfer(w, src, dst, auth, amt) ==
    IF w.token[src].state # "Initialized" \/ w.token[dst].state # "Initialized"
    THEN [err |-> "InvalidAccountData", w |-> w]
    ELSE IF w.token[src].amount < amt
    THEN [err |-> "InsufficientFunds", w |-> w]
    ELSE IF w.token[src].mint # w.token[dst].mint
    THEN [err |-> "MintMismatch", w |-> w]
    ELSE IF w.token[src].owner # auth
    THEN [err |-> "OwnerMismatch", w |-> w]
    ELSE [err |-> "none",
          w |-> [w EXCEPT !.token = [@ EXCEPT ![src].amount = @ - amt,
                                              ![dst].amount = @ + amt],
                          !.issued = Append(@, Call("token_transfer", src, dst, amt, auth))]]

\* spl_token close_account: the balance must be zero; the retained native
\* balance goes to dst
TokenClose(w, acct, dst, auth) ==
    IF w.token[acct].state # "Initialized"
    THEN [err |-> "InvalidAccountData", w |-> w]
    ELSE IF w.token[acct].amount # 0
    THEN [err |-> "NonNativeHasBalance", w |-> w]
    ELSE IF w.token[acct].owner # auth
    THEN [err |-> "OwnerMismatch", w |-> w]
    ELSE [err |-> "none",
          w |-> [w EXCEPT !.lamports = [@ EXCEPT ![dst] = @ + w.lamports[acct],
                                                 ![acct] = 0],
                          !.token[acct].state = "Closed",
                          !.issued = Append(@, Call("close_account", acct, dst,
                                                    w.lamports[acct], auth))]]

\* what a handler returns: the result and the working ledger at that point
Outcome(result, w) == [result |-> result, w |-> w]

(***************************************************************************)
(* process_init_escrow                                                     *)
(***************************************************************************)
\* 10_usize.pow(decimals) for the precisions explored
UnitOf == [d \in DecimalsSet |-> Pow10(d)]

\* processor.rs:70, the two sides of the one-whole-unit comparison
UnitAmountOk(d, amount) == UnitOf[d].bytes = ToBytes(amount)

\* the power overflows and the build checks arithmetic overflow
PowPanics(d) == overflow_checks /\ UnitOf[d].overflow

\* the checks without the already-initialized check of processor.rs:82-85
InitChecks_NoInitializedCheck(w, a) ==
    IF ~a.signed THEN "MissingRequiredSignature"
    ELSE IF w.token[a.temp].state # "Initialized" THEN "InvalidAccountData"
    ELSE IF a.mint # w.token[a.temp].mint THEN "InvalidMintAccount"
    ELSE IF PowPanics(decimals[a.mint]) THEN "ProgramFailedToComplete"
    ELSE IF ~UnitAmountOk(decimals[a.mint], w.token[a.temp].amount)
    THEN "InvalidTokenAmount"
    ELSE IF ~RentIsExempt(w.lamports[a.escrow], EscrowLEN) THEN "NotRentExempt"
    ELSE IF a.recipient # SALES_TAX_RECIPIENT_INTERNAL THEN "InvalidSalesTaxRecipient"
    ELSE "pass"

\* the checks with the fee recipient compared before the record is read
InitChecks_RecipientFirst(w, a) ==
    IF ~a.signed THEN "MissingRequiredSignature"
    ELSE IF w.token[a.temp].state # "Initialized" THEN "InvalidAccountData"
    ELSE IF a.mint # w.token[a.temp].mint THEN "InvalidMintAccount"
    ELSE IF PowPanics(decimals[a.mint]) THEN "ProgramFailedToComplete"
    ELSE IF ~UnitAmountOk(decimals[a.mint], w.token[a.temp].amount)
    THEN "InvalidTokenAmount"
    ELSE IF ~RentIsExempt(w.lamports[a.escrow], EscrowLEN) THEN "NotRentExempt"
    ELSE IF a.recipient # SALES_TAX_RECIPIENT_INTERNAL THEN "InvalidSalesTaxRecipient"
    ELSE IF EscrowUnpackUnchecked(w.escrow_data[a.escrow]).err # "none"
    THEN "InvalidAccountData"
    ELSE IF EscrowUnpackUnchecked(w.escrow_data[a.escrow]).is_initialized
    THEN "AccountAlreadyInitialized"
    ELSE "pass"

\* processor.rs:60-92: the checks in program order; "pass" when none fails
InitChecks(w, a) ==
    IF ~a.signed THEN "MissingRequiredSignature"
    ELSE IF w.token[a.temp].state # "Initialized" THEN "InvalidAccountData"
    ELSE IF a.mint # w.token[a.temp].mint THEN "InvalidMintAccount"
    ELSE IF PowPanics(decimals[a.mint]) THEN "ProgramFailedToComplete"
    ELSE IF ~UnitAmountOk(decimals[a.mint], w.token[a.temp].amount)
    THEN "InvalidTokenAmount"
    ELSE IF ~RentIsExempt(w.lamports[a.escrow], EscrowLEN) THEN "NotRentExempt"
    ELSE IF EscrowUnpackUnchecked(w.escrow_data[a.escrow]).err # "none"
    THEN "InvalidAccountData"
    ELSE IF EscrowUnpackUnchecked(w.escrow_data[a.escrow]).is_initialized
    THEN "AccountAlreadyInitialized"
    ELSE IF a.recipient # SALES_TAX_RECIPIENT_INTERNAL THEN "InvalidSalesTaxRecipient"
    ELSE "pass"

\* the listing fee is not collected
InitChargeFee_Free(w, a) == [err |-> "none", w |-> w]

\* processor.rs:94-97
InitChargeFee(w, a) ==
    IF LISTING_FEE > 0
    THEN SysTransfer(w, a.initializer, a.recipient, LISTING_FEE)
    ELSE [err |-> "none", w |-> w]

\* the record is written with the mint and the held account exchanged
InitWriteRecord_Swapped(w, a) ==
    [w EXCEPT !.escrow_data[a.escrow] =
        EscrowPack([is_initialized |-> TRUE,
                    initializer_pubkey |-> a.initializer,
                    mint_pubkey |-> a.temp,
                    temp_token_account_pubkey |-> a.mint,
                    expected_amount |-> a.amount])]

\* processor.rs:99-105
InitWriteRecord(w, a) ==
    [w EXCEPT !.escrow_data[a.escrow] =
        EscrowPack([is_initialized |-> TRUE,
                    initializer_pubkey |-> a.initializer,
                    mint_pubkey |-> a.mint,
                    temp_token_account_pubkey |-> a.temp,
                    expected_amount |-> a.amount])]

\* the held account stays with the initializer
InitDelegate_Skipped(w, a) == [err |-> "none", w |-> w]

\* processor.rs:106-125
InitDelegate(w, a) == TokenSetAuthority(w, a.temp, pda, a.initializer)

\* the listing fee is collected before the checks are made
process_init_escrow_FeeFirst(w, a) ==
    LET f == InitChargeFee(w, a)
    IN  IF f.err # "none" THEN Outcome(f.err, f.w)
        ELSE LET c == InitChecks(f.w, a)
             IN  IF c # "pass" THEN Outcome(c, f.w)
                 ELSE LET s == InitDelegate(InitWriteRecord(f.w, a), a)
                      IN  IF s.err # "none" THEN Outcome(s.err, s.w)
                          ELSE Outcome("Ok", s.w)

\* processor.rs:44-128
process_init_escrow(w, a) ==
    LET c == InitChecks(w, a)
    IN  IF c # "pass" THEN Outcome(c, w)
        ELSE LET f == InitChargeFee(w, a)
             IN  IF f.err # "none" THEN Outcome(f.err, f.w)
                 ELSE LET s == InitDelegate(InitWriteRecord(f.w, a), a)
                      IN  IF s.err # "none" THEN Outcome(s.err, s.w)
                          ELSE Outcome("Ok", s.w)

(***************************************************************************)
(* process_exchange                                                        *)
(***************************************************************************)
\* the validations with the fee recipient compared before the record is
\* matched against the supplied accounts
ExchangeChecks_RecipientEarly(w, a) ==
    IF ~a.signed THEN "MissingRequiredSignature"
    ELSE IF w.token[a.temp].state # "Initialized" THEN "InvalidAccountData"
    ELSE IF a.amount # w.token[a.temp].amount THEN "ExpectedAmountMismatch"
    ELSE LET e == EscrowUnpack(w.escrow_data[a.escrow])
         IN  IF e.err # "none" THEN e.err
             ELSE IF a.recipient # SALES_TAX_RECIPIENT_INTERNAL
             THEN "InvalidSalesTaxRecipient"
             ELSE IF e.temp_token_account_pubkey # a.temp THEN "InvalidAccountData"
             ELSE IF e.initializer_pubkey # a.initializer_main THEN "InvalidAccountData"
             ELSE IF e.mint_pubkey # a.mint THEN "InvalidAccountData"
             ELSE IF get_metadata_account(a.mint) # a.metadata_account
             THEN "InvalidAccountData"
             ELSE "pass"

\* the validations without the initializer comparison of processor.rs:176-179
ExchangeChecks_NoInitializerCheck(w, a) ==
    IF ~a.signed THEN "MissingRequiredSignature"
    ELSE IF w.token[a.temp].state # "Initialized" THEN "InvalidAccountData"
    ELSE IF a.amount # w.token[a.temp].amount THEN "ExpectedAmountMismatch"
    ELSE LET e == EscrowUnpack(w.escrow_data[a.escrow])
         IN  IF e.err # "none" THEN e.err
             ELSE IF e.temp_token_account_pubkey # a.temp THEN "InvalidAccountData"
             ELSE IF a.recipient # SALES_TAX_RECIPIENT_INTERNAL
             THEN "InvalidSalesTaxRecipient"
             ELSE IF e.mint_pubkey # a.mint THEN "InvalidAccountData"
             ELSE IF get_metadata_account(a.mint) # a.metadata_account
             THEN "InvalidAccountData"
             ELSE "pass"

\* the validations with the record read before the amount is compared
ExchangeChecks_RecordFirst(w, a) ==
    IF ~a.signed THEN "MissingRequiredSignature"
    ELSE IF w.token[a.temp].state # "Initialized" THEN "InvalidAccountData"
    ELSE LET e == EscrowUnpack(w.escrow_data[a.escrow])
         IN  IF e.err # "none" THEN e.err
             ELSE IF a.amount # w.token[a.temp].amount THEN "ExpectedAmountMismatch"
             ELSE IF e.temp_token_account_pubkey # a.temp THEN "InvalidAccountData"
             ELSE IF e.initializer_pubkey # a.initializer_main THEN "InvalidAccountData"
             ELSE IF a.recipient # SALES_TAX_RECIPIENT_INTERNAL
             THEN "InvalidSalesTaxRecipient"
             ELSE IF e.mint_pubkey # a.mint THEN "InvalidAccountData"
             ELSE IF get_metadata_account(a.mint) # a.metadata_account
             THEN "InvalidAccountData"
             ELSE "pass"

\* the validations without the unpacking of the held account
ExchangeChecks_HeldNotUnpacked(w, a) ==
    IF ~a.signed THEN "MissingRequiredSignature"
    ELSE IF a.amount # w.token[a.temp].amount THEN "ExpectedAmountMismatch"
    ELSE LET e == EscrowUnpack(w.escrow_data[a.escrow])
         IN  IF e.err # "none" THEN e.err
             ELSE IF e.temp_token_account_pubkey # a.temp THEN "InvalidAccountData"
             ELSE IF e.initializer_pubkey # a.initializer_main THEN "InvalidAccountData"
             ELSE IF a.recipient # SALES_TAX_RECIPIENT_INTERNAL
             THEN "InvalidSalesTaxRecipient"
             ELSE IF e.mint_pubkey # a.mint THEN "InvalidAccountData"
             ELSE IF get_metadata_account(a.mint) # a.metadata_account
             THEN "InvalidAccountData"
             ELSE "pass"

\* the validations without the comparison of the held account with the record
ExchangeChecks_NoHeldCheck(w, a) ==
    IF ~a.signed THEN "MissingRequiredSignature"
    ELSE IF w.token[a.temp].state # "Initialized" THEN "InvalidAccountData"
    ELSE IF a.amount # w.token[a.temp].amount THEN "ExpectedAmountMismatch"
    ELSE LET e == EscrowUnpack(w.escrow_data[a.escrow])
         IN  IF e.err # "none" THEN e.err
             ELSE IF e.initializer_pubkey # a.initializer_main THEN "InvalidAccountData"
             ELSE IF a.recipient # SALES_TAX_RECIPIENT_INTERNAL
             THEN "InvalidSalesTaxRecipient"
             ELSE IF e.mint_pubkey # a.mint THEN "InvalidAccountData"
             ELSE IF get_metadata_account(a.mint) # a.metadata_account
             THEN "InvalidAccountData"
             ELSE "pass"

\* processor.rs:154-196: the validations in program order
ExchangeChecks(w, a) ==
    IF ~a.signed THEN "MissingRequiredSignature"
    ELSE IF w.token[a.temp].state # "Initialized" THEN "InvalidAccountData"
    ELSE IF a.amount # w.token[a.temp].amount THEN "ExpectedAmountMismatch"
    ELSE LET e == EscrowUnpack(w.escrow_data[a.escrow])
         IN  IF e.err # "none" THEN e.err
             ELSE IF e.temp_token_account_pubkey # a.temp THEN "InvalidAccountData"
             ELSE IF e.initializer_pubkey # a.initializer_main THEN "InvalidAccountData"
             ELSE IF a.recipient # SALES_TAX_RECIPIENT_INTERNAL
             THEN "InvalidSalesTaxRecipient"
             ELSE IF e.mint_pubkey # a.mint THEN "InvalidAccountData"
             ELSE IF get_metadata_account(a.mint) # a.metadata_account
             THEN "InvalidAccountData"
             ELSE "pass"

\* processor.rs:202
tax_amount(am) == (am * SALES_TAX) \div 10000

\* processor.rs:210
royalty_total(bps, am) == (bps * am) \div 10000

\* every creator is sent the whole royalty
creator_amount_Whole(share, royalty) == royalty

\* processor.rs:231
creator_amount(share, royalty) == (share * royalty) \div 100

RECURSIVE PayCreators(_, _, _, _, _)
\* processor.rs:226-235: the loop over the metadata creators from position i
PayCreators(w, a, creators, royalty, i) ==
    IF i > Len(creators) THEN [err |-> "none", w |-> w]
    ELSE IF creators[i].address # a.creator_accounts[i]
    THEN [err |-> "CreatorMismatch", w |-> w]
    ELSE LET x == SysTransfer(w, a.taker, creators[i].address,
                              creator_amount(creators[i].share, royalty))
         IN  IF x.err # "none" THEN x
             ELSE PayCreators(x.w, a, creators, royalty, i + 1)

\* the royalties with the creator count checked only for being too small
ExchangeRoyalties_TooFewOnly(w, a, am) ==
    LET res == Metadata_from_u8(metadata[a.mint])
    IN  IF res.err # "none" THEN [err |-> "none", w |-> w, royalty_total |-> 0]
        ELSE LET md == res.data
                 r == royalty_total(md.seller_fee_basis_points, am)
             IN  IF md.seller_fee_basis_points + SALES_TAX > 10000
                 THEN [err |-> "InvalidRoyaltyFee", w |-> w, royalty_total |-> r]
                 ELSE IF ~md.creators.some
                 THEN [err |-> "none", w |-> w, royalty_total |-> r]
                 ELSE IF Len(md.creators.list) > Len(a.creator_accounts)
                 THEN [err |-> "CreatorMismatch", w |-> w, royalty_total |-> r]
                 ELSE LET p == PayCreators(w, a, md.creators.list, r, 1)
                      IN  [err |-> p.err, w |-> p.w, royalty_total |-> r]

\* the royalties with the error of Metadata::from_u8 returned to the caller
ExchangeRoyalties_MetadataRequired(w, a, am) ==
    LET res == Metadata_from_u8(metadata[a.mint])
    IN  IF res.err # "none" THEN [err |-> res.err, w |-> w, royalty_total |-> 0]
        ELSE LET md == res.data
                 r == royalty_total(md.seller_fee_basis_points, am)
             IN  IF md.seller_fee_basis_points + SALES_TAX > 10000
                 THEN [err |-> "InvalidRoyaltyFee", w |-> w, royalty_total |-> r]
                 ELSE IF ~md.creators.some
                 THEN [err |-> "none", w |-> w, royalty_total |-> r]
                 ELSE IF Len(md.creators.list) # Len(a.creator_accounts)
                 THEN [err |-> "CreatorMismatch", w |-> w, royalty_total |-> r]
                 ELSE LET p == PayCreators(w, a, md.creators.list, r, 1)
                      IN  [err |-> p.err, w |-> p.w, royalty_total |-> r]

\* processor.rs:206-244: [err, w, royalty_total]
ExchangeRoyalties(w, a, am) ==
    LET res == Metadata_from_u8(metadata[a.mint])
    IN  IF res.err # "none" THEN [err |-> "none", w |-> w, royalty_total |-> 0]
        ELSE LET md == res.data
                 r == royalty_total(md.seller_fee_basis_points, am)
             IN  IF md.seller_fee_basis_points + SALES_TAX > 10000
                 THEN [err |-> "InvalidRoyaltyFee", w |-> w, royalty_total |-> r]
                 ELSE IF ~md.creators.some
                 THEN [err |-> "none", w |-> w, royalty_total |-> r]
                 ELSE IF Len(md.creators.list) # Len(a.creator_accounts)
                 THEN [err |-> "CreatorMismatch", w |-> w, royalty_total |-> r]
                 ELSE LET p == PayCreators(w, a, md.creators.list, r, 1)
                      IN  [err |-> p.err, w |-> p.w, royalty_total |-> r]

\* the royalties are not deducted from what the seller receives
final_amount_without_royalty(am, tax, royalty) == am - tax

\* processor.rs:247
final_amount_for_seller(am, tax, royalty) == am - tax - royalty

\* the paid settlement with the taker's amount taken for the price
ExchangePay_TakerPrice(w, a, e) ==
    LET am == a.amount
        tax == tax_amount(am)
        t == SysTransfer(w, a.taker, a.recipient, tax)
    IN  IF t.err # "none" THEN t
        ELSE LET r == ExchangeRoyalties(t.w, a, am)
                 final == final_amount_for_seller(am, tax, r.royalty_total)
             IN  IF r.err # "none" THEN [err |-> r.err, w |-> r.w]
                 ELSE IF final <= 0 THEN [err |-> "InvalidFinalAmount", w |-> r.w]
                 ELSE SysTransfer(r.w, a.taker, e.initializer_pubkey, final)

\* the paid settlement with a final amount of 0 paid out
ExchangePay_ZeroAllowed(w, a, e) ==
    LET am == e.expected_amount
        tax == tax_amount(am)
        t == SysTransfer(w, a.taker, a.recipient, tax)
    IN  IF t.err # "none" THEN t
        ELSE LET r == ExchangeRoyalties(t.w, a, am)
                 final == final_amount_for_seller(am, tax, r.royalty_total)
             IN  IF r.err # "none" THEN [err |-> r.err, w |-> r.w]
                 ELSE IF final < 0 THEN [err |-> "InvalidFinalAmount", w |-> r.w]
                 ELSE SysTransfer(r.w, a.taker, e.initializer_pubkey, final)

\* processor.rs:198-254: the paid settlement, taker is not the initializer
ExchangePay(w, a, e) ==
    LET am == e.expected_amount
        tax == tax_amount(am)
        t == SysTransfer(w, a.taker, a.recipient, tax)
    IN  IF t.err # "none" THEN t
        ELSE LET r == ExchangeRoyalties(t.w, a, am)
                 final == final_amount_for_seller(am, tax, r.royalty_total)
             IN  IF r.err # "none" THEN [err |-> r.err, w |-> r.w]
                 ELSE IF final < 0
                 THEN [err |-> IF overflow_checks THEN "ProgramFailedToComplete"
                               ELSE "InsufficientLamports", w |-> r.w]
                 ELSE IF final <= 0 THEN [err |-> "InvalidFinalAmount", w |-> r.w]
                 ELSE SysTransfer(r.w, a.taker, e.initializer_pubkey, final)

\* the close also clears the record's data
ExchangeCloseRecord_Zeroed(w, a) ==
    [w EXCEPT !.lamports = [@ EXCEPT ![a.initializer_main] = @ + w.lamports[a.escrow],
                                     ![a.escrow] = 0],
              !.escrow_data[a.escrow] = ZeroedEscrow,
              !.issued = Append(@, Call("close_record", a.escrow, a.initializer_main,
                                        w.lamports[a.escrow], "program"))]

\* processor.rs:296-301: the record's balance goes to the initializer; the
\* balances of the ledger stay far below 2^64, where checked_add cannot fail
\* (close_escrow_u64 is the same step over the whole u64 range)
ExchangeCloseRecord(w, a) ==
    [w EXCEPT !.lamports = [@ EXCEPT ![a.initializer_main] = @ + w.lamports[a.escrow],
                                     ![a.escrow] = 0],
              !.issued = Append(@, Call("close_record", a.escrow, a.initializer_main,
                                        w.lamports[a.escrow], "program"))]

\* the held account is emptied but not closed
ExchangeTail_HeldLeftOpen(w, a, held_amount) ==
    LET x == TokenTransfer(w, a.temp, a.dest, pda, held_amount)
    IN  IF x.err # "none" THEN Outcome(x.err, x.w)
        ELSE Outcome("Ok", ExchangeCloseRecord(x.w, a))

\* the held account is closed to the taker
ExchangeTail_ReleasedToTaker(w, a, held_amount) ==
    LET x == TokenTransfer(w, a.temp, a.dest, pda, held_amount)
    IN  IF x.err # "none" THEN Outcome(x.err, x.w)
        ELSE LET c == TokenClose(x.w, a.temp, a.taker, pda)
             IN  IF c.err # "none" THEN Outcome(c.err, c.w)
                 ELSE Outcome("Ok", ExchangeCloseRecord(c.w, a))

\* processor.rs:256-303: deliver the units, close the held account and the record
ExchangeTail(w, a, held_amount) ==
    LET x == TokenTransfer(w, a.temp, a.dest, pda, held_amount)
    IN  IF x.err # "none" THEN Outcome(x.err, x.w)
        ELSE LET c == TokenClose(x.w, a.temp, a.initializer_main, pda)
             IN  IF c.err # "none" THEN Outcome(c.err, c.w)
                 ELSE Outcome("Ok", ExchangeCloseRecord(c.w, a))

\* the exchange with the payment steps taken by every taker
process_exchange_AlwaysPay(w, a) ==
    LET c == ExchangeChecks(w, a)
    IN  IF c # "pass" THEN Outcome(c, w)
        ELSE LET e == EscrowUnpack(w.escrow_data[a.escrow])
                 held_amount == w.token[a.temp].amount
                 p == ExchangePay(w, a, e)
             IN  IF p.err # "none" THEN Outcome(p.err, p.w)
                 ELSE ExchangeTail(p.w, a, held_amount)

\* the exchange with the initializer's call not validated
process_exchange_CancelUnchecked(w, a) ==
    IF a.taker = w.escrow_data[a.escrow].initializer_pubkey
    THEN ExchangeTail(w, a, w.token[a.temp].amount)
    ELSE LET c == ExchangeChecks(w, a)
         IN  IF c # "pass" THEN Outcome(c, w)
             ELSE LET e == EscrowUnpack(w.escrow_data[a.escrow])
                      p == ExchangePay(w, a, e)
                  IN  IF p.err # "none" THEN Outcome(p.err, p.w)
                      ELSE ExchangeTail(p.w, a, w.token[a.temp].amount)

\* processor.rs:130-304
process_exchange(w, a) ==
    LET c == ExchangeChecks(w, a)
    IN  IF c # "pass" THEN Outcome(c, w)
        ELSE LET e == EscrowUnpack(w.escrow_data[a.escrow])
                 held_amount == w.token[a.temp].amount
             IN  IF a.taker # e.initializer_pubkey
                 THEN LET p == ExchangePay(w, a, e)
                      IN  IF p.err # "none" THEN Outcome(p.err, p.w)
                          ELSE ExchangeTail(p.w, a, held_amount)
                 ELSE ExchangeTail(w, a, held_amount)

(***************************************************************************)
(* The paid-settlement arithmetic of process_exchange on 64-bit words      *)
(***************************************************************************)
\* processor.rs:202, (am * SALES_TAX)/10000 on u64
tax_amount_u64(am) ==
    LET p == MulWord(am, SALES_TAX)
    IN  [bytes |-> DivSmall(p.bytes, 10000).q, overflow |-> p.overflow]

\* processor.rs:210, (seller_fee_basis_points as u64 * am)/10000
royalty_total_u64(bps, am) ==
    LET p == MulWord(am, bps)
    IN  [bytes |-> DivSmall(p.bytes, 10000).q, overflow |-> p.overflow]

\* processor.rs:247, am - tax_amount - royalty_total on u64
final_amount_u64(am, tax, royalty) ==
    LET d1 == SubWord(am, tax)
        d2 == SubWord(d1.bytes, royalty)
    IN  [bytes |-> d2.bytes, overflow |-> d1.overflow \/ d2.overflow]

\* the amounts of the paid branch without the check of lines 211-213
PaidAmounts_NoRateCheck(am, md, checks) ==
    LET tax == tax_amount_u64(am)
        roy == IF md.readable THEN royalty_total_u64(md.seller_fee_basis_points, am)
               ELSE [bytes |-> ToBytes(0), overflow |-> FALSE]
        fin == final_amount_u64(am, tax.bytes, roy.bytes)
        status ==
            IF checks /\ tax.overflow THEN "panic"
            ELSE IF checks /\ roy.overflow THEN "panic"
            ELSE IF checks /\ fin.overflow THEN "panic"
            ELSE IF fin.bytes = ToBytes(0) THEN "InvalidFinalAmount"
            ELSE "paid"
    IN  [status |-> status, tax_amount |-> tax.bytes, royalty_total |-> roy.bytes,
         final_amount_for_seller |-> fin.bytes]

\* processor.rs:201-251 without the transfers: the amounts the paid branch
\* computes for stored price am and metadata md, and how it ends; a build with
\* overflow checks panics where a product or difference leaves the u64 range
PaidAmounts(am, md, checks) ==
    LET tax == tax_amount_u64(am)
        roy == IF md.readable THEN royalty_total_u64(md.seller_fee_basis_points, am)
               ELSE [bytes |-> ToBytes(0), overflow |-> FALSE]
        fin == final_amount_u64(am, tax.bytes, roy.bytes)
        status ==
            IF checks /\ tax.overflow THEN "panic"
            ELSE IF checks /\ roy.overflow THEN "panic"
            ELSE IF md.readable /\ md.seller_fee_basis_points + SALES_TAX > 10000
            THEN "InvalidRoyaltyFee"
            ELSE IF checks /\ fin.overflow THEN "panic"
            ELSE IF fin.bytes = ToBytes(0) THEN "InvalidFinalAmount"
            ELSE "paid"
    IN  [status |-> status, tax_amount |-> tax.bytes, royalty_total |-> roy.bytes,
         final_amount_for_seller |-> fin.bytes]

(***************************************************************************)
(* Closing the escrow record on 64-bit words                               *)
(***************************************************************************)
\* the record is closed although the sum has left the u64 range
close_escrow_u64_Wrapping(initializer, escrow) ==
    [err |-> "none", initializer |-> AddWord(initializer, escrow).bytes,
     escrow |-> ToBytes(0)]

\* processor.rs:296-301 on u64 balances: the initializer's balance and the
\* record's balance after the close, or AmountOverflow with both as they were
close_escrow_u64(initializer, escrow) ==
    LET sum == AddWord(initializer, escrow)
    IN  IF sum.overflow
        THEN [err |-> "AmountOverflow", initializer |-> initializer, escrow |-> escrow]
        ELSE [err |-> "none", initializer |-> sum.bytes, escrow |-> ToBytes(0)]

(***************************************************************************)
(* Instruction decoding (instruction.rs) and dispatch                      *)
(***************************************************************************)
\* a payload shorter than 8 bytes is completed with zero bytes
unpack_amount_ZeroPadded(input) ==
    [err |-> "none",
     amount |-> [k \in 1..8 |-> IF k <= Len(input) THEN input[k] ELSE 0]]

\* EscrowInstruction::unpack_amount: the first 8 bytes as a little-endian
\* u64, kept as the 8 bytes of the word, lowest first
unpack_amount(input) ==
    IF Len(input) < 8 THEN [err |-> "InvalidInstruction"]
    ELSE [err |-> "none", amount |-> SubSeq(input, 1, 8)]

\* EscrowInstruction::unpack: split_first, then the tag selects the variant
unpack(input) ==
    IF input = <<>> THEN [err |-> "InvalidInstruction"]
    ELSE LET tag == Head(input)
             rest == Tail(input)
         IN  IF tag \notin {0, 1} THEN [err |-> "InvalidInstruction"]
             ELSE LET am == unpack_amount(rest)
                  IN  IF am.err # "none" THEN [err |-> am.err]
                      ELSE [err |-> "none",
                            tag |-> IF tag = 0 THEN "InitEscrow" ELSE "Exchange",
                            amount |-> am.amount]

\* the word is below 2^31, where the ledger's amounts live
SmallWord(b) == b[4] < 128 /\ b[5] = 0 /\ b[6] = 0 /\ b[7] = 0 /\ b[8] = 0

\* Processor::process: decode, then run the handler of the variant on the
\* accounts, read as ia by process_init_escrow and as ea by process_exchange
process(w, instruction_data, ia, ea) ==
    LET instruction == unpack(instruction_data)
    IN  IF instruction.err # "none" THEN Outcome(instruction.err, w)
        ELSE IF instruction.tag = "InitEscrow"
        THEN process_init_escrow(w, [ia EXCEPT !.amount = FromBytes(instruction.amount)])
        ELSE process_exchange(w, [ea EXCEPT !.amount = FromBytes(instruction.amount)])

(***************************************************************************)
(* The ledger: initial state and invocations                               *)
(***************************************************************************)
\* no invocation is being reported
NoCall == [op |-> "none"]

\* no arithmetic has been carried out
NoCalc == [op |-> "none"]

\* owner of every token account at creation (create_token_account)
TokenOwner0 == [t \in TokenAccts |-> IF t = "ta" THEN "alice" ELSE "bob"]

\* the native balances the accounts are created with
Lamports0 ==
    [x \in Accounts |->
        IF x = "alice" THEN 20000000
        ELSE IF x = "bob" THEN 10000500
        ELSE IF x = Underfunded THEN 500
        ELSE IF x \in Escrows THEN 5000000
        ELSE IF x \in TokenAccts THEN RentMinimumBalance(165)
        ELSE 0]

Unreadable == [readable |-> FALSE, seller_fee_basis_points |-> 0, creators |-> NoCreators]

\* mint precision, metadata content and build profile of a deployment; the
\* build profile matters only where 10^decimals overflows
Configs ==
    {[d |-> 0, md |-> x, oc |-> FALSE] : x \in MetadataSet}
    \cup {[d |-> d, md |-> Unreadable, oc |-> oc] : d \in DecimalsSet \ {0}, oc \in BOOLEAN}

Init ==
    /\ lamports = Lamports0
    /\ escrow_data = [e \in Escrows |-> ZeroedEscrow]
    /\ token = [t \in TokenAccts |->
                  [mint |-> "m1", owner |-> TokenOwner0[t], amount |-> 0,
                   state |-> "Initialized"]]
    /\ \E c \in Configs :
          /\ decimals = [m \in Mints |-> IF m = "m1" THEN c.d ELSE 0]
          /\ metadata = [m \in Mints |-> IF m = "m1" THEN c.md ELSE Unreadable]
          /\ overflow_checks = c.oc
    /\ last = NoCall
    /\ calc = NoCalc

\* the enclosing transaction: the working ledger is kept only on Ok
Commit(r) ==
    IF r.result = "Ok"
    THEN /\ lamports' = r.w.lamports
         /\ escrow_data' = r.w.escrow_data
         /\ token' = r.w.token
    ELSE UNCHANGED <<lamports, escrow_data, token>>

\* what is reported of an invocation: the record it names, its result, the
\* calls it issued and, when it succeeded, its arguments
Report(op, a, r) ==
    [op |-> op, escrow |-> a.escrow, result |-> r.result, issued |-> r.w.issued,
     a |-> IF r.result = "Ok" THEN a ELSE <<>>]

\* the arguments of InitEscrow: the amount and the accounts that matter
InitInputs ==
    [initializer : Users, signed : BOOLEAN, temp : HeldAccts, mint : Mints,
     escrow : Escrows, recipient : {SALES_TAX_RECIPIENT_INTERNAL, "bob"},
     amount : PriceSet]

\* signature, fee recipient, mint and metadata account of an Exchange: all as
\* the program expects, or one of them off
ExchangeFixed ==
    LET ok == [signed |-> TRUE, recipient |-> SALES_TAX_RECIPIENT_INTERNAL,
               mint |-> "m1", metadata_account |-> get_metadata_account("m1")]
    IN  {ok,
         [ok EXCEPT !.signed = FALSE],
         [ok EXCEPT !.recipient = "bob"],
         [ok EXCEPT !.mint = "m2"],
         [ok EXCEPT !.metadata_account = get_metadata_account("m2")],
         [ok EXCEPT !.mint = "m2", !.metadata_account = get_metadata_account("m2")]}

\* the trailing creator accounts an Exchange may supply
CreatorLists ==
    {<<>>, <<"carol">>, <<"carol", "dave">>, <<"carol", "bob">>, <<"dave", "carol">>}

\* the remaining arguments of Exchange
ExchangeFree ==
    [taker : Users, dest : DestAccts, temp : HeldAccts, initializer_main : Users,
     escrow : Escrows, creator_accounts : CreatorLists,
     amount : TakerAmounts]

\* the arguments of Exchange
ExchangeArgs(f, v) ==
    [taker |-> v.taker, signed |-> f.signed, dest |-> v.dest, temp |-> v.temp,
     initializer_main |-> v.initializer_main, escrow |-> v.escrow,
     recipient |-> f.recipient, mint |-> f.mint,
     metadata_account |-> f.metadata_account,
     creator_accounts |-> v.creator_accounts, amount |-> v.amount]

\* the Exchange invocations explored: creator accounts are supplied only with
\* a signed call naming the configured fee recipient, mint m1 and its metadata
ExchangeInputs ==
    {ExchangeArgs(p[1], p[2]) :
        p \in {q \in ExchangeFixed \X ExchangeFree :
                  \/ q[2].creator_accounts = <<>>
                  \/ /\ q[1].signed
                     /\ q[1].recipient = SALES_TAX_RECIPIENT_INTERNAL
                     /\ q[1].mint = "m1"
                     /\ q[1].metadata_account = get_metadata_account("m1")}}

\* EscrowInstruction::InitEscrow { amount } with its accounts
InitEscrow ==
    /\ last = NoCall
    /\ \E a \in InitInputs :
          LET r == process_init_escrow(Ledger, a)
          IN  /\ Commit(r)
              /\ last' = Report("InitEscrow", a, r)
    /\ UNCHANGED <<decimals, metadata, overflow_checks, calc>>

\* EscrowInstruction::Exchange { amount } with its accounts
Exchange ==
    /\ last = NoCall
    /\ \E a \in ExchangeInputs :
          LET r == process_exchange(Ledger, a)
          IN  /\ Commit(r)
              /\ last' = Report("Exchange", a, r)
    /\ UNCHANGED <<decimals, metadata, overflow_checks, calc>>

\* the invocation's result has been delivered; the ledger takes the next one
Return ==
    /\ last # NoCall
    /\ last' = NoCall
    /\ UNCHANGED <<lamports, escrow_data, token, decimals, metadata, overflow_checks, calc>>

RECURSIVE SumAmounts(_)
SumAmounts(S) ==
    IF S = {} THEN 0
    ELSE LET t == CHOOSE x \in S : TRUE IN token[t].amount + SumAmounts(S \ {t})

\* utils::mint_tokens_to, signed by the mint authority
MintTokensTo ==
    /\ last = NoCall
    /\ \E dest \in TokenAccts, amount \in MintAmounts :
          /\ SumAmounts(TokenAccts) + amount <= MaxSupply
          /\ token[dest].state = "Initialized"
          /\ token' = [token EXCEPT ![dest].amount = @ + amount]
    /\ UNCHANGED <<lamports, escrow_data, decimals, metadata, overflow_checks, last, calc>>

\* a token transfer submitted directly by a user, who signs as the authority
UserTokenTransfer ==
    /\ last = NoCall
    /\ \E src \in TokenAccts, dst \in TokenAccts, auth \in Users, amount \in MintAmounts :
          LET r == TokenTransfer(Ledger, src, dst, auth, amount)
          IN  /\ r.err = "none"
              /\ src # dst
              /\ token' = r.w.token
    /\ UNCHANGED <<lamports, escrow_data, decimals, metadata, overflow_checks, last, calc>>

Next == InitEscrow \/ Exchange \/ Return \/ MintTokensTo \/ UserTokenTransfer

Spec == Init /\ [][Next]_vars

(***************************************************************************)
(* The arithmetic of the paid settlement over the whole u64 range          *)
(***************************************************************************)
\* stored prices: small ones, the first whose product with 9750 leaves u64,
\* the two around 2^64/250, 2^63 + 40 and u64::MAX
PriceWords ==
    { ToBytes(0), ToBytes(1), ToBytes(40), ToBytes(1000),
      <<130, 148, 92, 119, 189, 184, 6, 0>>,
      <<190, 159, 26, 47, 221, 36, 6, 1>>,
      <<191, 159, 26, 47, 221, 36, 6, 1>>,
      <<40, 0, 0, 0, 0, 0, 0, 128>>,
      <<255, 255, 255, 255, 255, 255, 255, 255>> }

\* metadata as far as the arithmetic reads it: unreadable, or a u16 rate
RateSet ==
    {[readable |-> FALSE, seller_fee_basis_points |-> 0]}
    \cup {[readable |-> TRUE, seller_fee_basis_points |-> r] :
             r \in {0, 500, 9750, 9800, 65535}}

\* the paid branch computes its amounts for some stored price and metadata
Settle ==
    /\ \E am \in PriceWords, md \in RateSet :
          calc' = [op |-> "settle", price |-> am, md |-> md,
                   out |-> PaidAmounts(am, md, overflow_checks)]
    /\ UNCHANGED <<lamports, escrow_data, token, decimals, metadata,
                   overflow_checks, last>>

NextSettle == Settle

SpecSettle == Init /\ [][NextSettle]_vars

(***************************************************************************)
(* The close of the escrow record over the whole u64 range                 *)
(***************************************************************************)
\* native balances: small ones, the record's rent, 2^63, and the three at the
\* top of the range around u64::MAX minus the record's rent
BalanceWords ==
    { ToBytes(0), ToBytes(1), ToBytes(5000000),
      <<0, 0, 0, 0, 0, 0, 0, 128>>,
      <<191, 180, 179, 255, 255, 255, 255, 255>>,
      <<192, 180, 179, 255, 255, 255, 255, 255>>,
      <<255, 255, 255, 255, 255, 255, 255, 255>> }

\* the record is closed for some balances of the initializer and the record
CloseRecord ==
    /\ \E i \in BalanceWords, e \in BalanceWords :
          calc' = [op |-> "close", initializer |-> i, escrow |-> e,
                   out |-> close_escrow_u64(i, e)]
    /\ UNCHANGED <<lamports, escrow_data, token, decimals, metadata,
                   overflow_checks, last>>

NextClose == CloseRecord

SpecClose == Init /\ [][NextClose]_vars

(***************************************************************************)
(* Raw instruction data through Processor::process                         *)
(***************************************************************************)
\* ten payload bytes: amounts 1000, 1, 0, u64::MAX and 2^63 + 40, each
\* followed by two further bytes
Payloads ==
    { <<232, 3, 0, 0, 0, 0, 0, 0, 7, 7>>,
      <<1, 0, 0, 0, 0, 0, 0, 0, 9, 9>>,
      <<0, 0, 0, 0, 0, 0, 0, 0, 0, 0>>,
      <<255, 255, 255, 255, 255, 255, 255, 255, 1, 2>>,
      <<40, 0, 0, 0, 0, 0, 0, 128, 0, 0>> }

\* instruction data: empty, or a tag byte and the first k bytes of a payload
InstructionData ==
    {<<>>} \cup {<<t>> \o SubSeq(p, 1, k) :
                    t \in {0, 1, 2, 255}, p \in Payloads, k \in {0, 1, 7, 8, 9, 10}}

\* the accounts of the invocations: alice's record e1 on her account ta
ProcessInit ==
    [initializer |-> "alice", signed |-> TRUE, temp |-> "ta", mint |-> "m1",
     escrow |-> "e1", recipient |-> SALES_TAX_RECIPIENT_INTERNAL, amount |-> 0]

ProcessExchange(taker) ==
    [taker |-> taker, signed |-> TRUE, dest |-> "tc", temp |-> "ta",
     initializer_main |-> "alice", escrow |-> "e1",
     recipient |-> SALES_TAX_RECIPIENT_INTERNAL, mint |-> "m1",
     metadata_account |-> get_metadata_account("m1"),
     creator_accounts |-> <<>>, amount |-> 0]

\* the decoder is given some instruction data
Decode ==
    /\ \E d \in InstructionData :
          calc' = [op |-> "decode", input |-> d, instruction |-> unpack(d)]
    /\ UNCHANGED <<lamports, escrow_data, token, decimals, metadata,
                   overflow_checks, last>>

\* the instruction data the program is invoked with: amounts 1000, 1 and 0
ProcessData ==
    {d \in InstructionData :
        /\ d # <<>> => d[1] \in {0, 1, 2}
        /\ Len(d) \in {0, 1, 8, 9, 10}
        /\ unpack(d).err = "none" => SmallWord(unpack(d).amount)
        /\ \A k \in DOMAIN d : k > 1 => d[k] < 255}

\* the program is invoked with some instruction data
Process ==
    /\ \E d \in ProcessData, taker \in Users :
          LET r == process(Ledger, d, ProcessInit, ProcessExchange(taker))
          IN  /\ Commit(r)
              /\ calc' = [op |-> "process", input |-> d, instruction |-> unpack(d),
                          result |-> r.result, issued |-> r.w.issued]
    /\ UNCHANGED <<decimals, metadata, overflow_checks, last>>

\* utils::mint_tokens_to: the one unit of the mint is minted into alice's
\* account
MintUnit ==
    /\ SumAmounts(TokenAccts) = 0
    /\ token["ta"].state = "Initialized"
    /\ token' = [token EXCEPT !["ta"].amount = 1]
    /\ UNCHANGED <<lamports, escrow_data, decimals, metadata, overflow_checks, last, calc>>

NextDecode == Decode \/ Process \/ MintUnit

SpecDecode == Init /\ [][NextDecode]_vars

(***************************************************************************)
(* Vocabulary of the properties                                            *)
(***************************************************************************)
\* state of a record slot with native balance l and stored data d
EscrowStateOf(l, d) ==
    IF l = 0 THEN "Closed"
    ELSE IF d.is_initialized = 1 THEN "Initialized"
    ELSE "Uninitialized"

EscrowState(e) == EscrowStateOf(lamports[e], escrow_data[e])

Invoked == last.op \in {"InitEscrow", "Exchange"}
InvokedNext == last'.op \in {"InitEscrow", "Exchange"}
Succeeded(op) == last.op = op /\ last.result = "Ok"
SucceededNext(op) == last'.op = op /\ last'.result = "Ok"

\* the mathematical one-whole-unit relation amount = 10^d, for amounts below 2^31
MathUnit(d, amount) == d <= 9 /\ amount = 10^d

\* position of the first call of the given kind among the calls issued, 0 if none
FirstCall(issued, kind) ==
    IF \E i \in DOMAIN issued : issued[i].kind = kind
    THEN CHOOSE i \in DOMAIN issued :
            /\ issued[i].kind = kind
            /\ \A j \in DOMAIN issued : issued[j].kind = kind => i <= j
    ELSE 0

(***************************************************************************)
(* C1                                                                      *)
(***************************************************************************)
\* C1: a record is exchanged at most once.  A successful Exchange leaves the
\* record's native balance at zero, nothing else brings it to zero, zero is
\* permanent, and every InitEscrow or Exchange naming a record whose balance
\* is zero fails.
C1_OneShot ==
    [][ /\ (SucceededNext("Exchange") /\ last.op = "none")
            => lamports'[last'.escrow] = 0
        /\ \A e \in Escrows :
              /\ lamports[e] = 0 => lamports'[e] = 0
              /\ (lamports[e] # 0 /\ lamports'[e] = 0)
                    => (SucceededNext("Exchange") /\ last'.escrow = e)
        /\ (InvokedNext /\ last.op = "none" /\ lamports[last'.escrow] = 0)
            => last'.result # "Ok" ]_vars

\* an invocation on an exchanged record has been refused
C1_Witness ==
    /\ last.op = "Exchange"
    /\ last.result # "Ok"
    /\ lamports[last.escrow] = 0
    /\ escrow_data[last.escrow].is_initialized = 1

(***************************************************************************)
(* C2                                                                      *)
(***************************************************************************)
\* what the paid settlement of record r owes the initializer
C2_Final(r) ==
    LET price == FromBytes(r.expected_amount)
        md == metadata[r.mint_pubkey]
    IN  price - ((price * 250) \div 10000)
              - (IF md.readable THEN (md.seller_fee_basis_points * price) \div 10000
                 ELSE 0)

\* C2: in a successful Exchange whose taker is not the stored initializer the
\* taker has paid the stored initializer price - tax - royalty_total, a positive
\* amount, before the held units were moved in the same invocation.
C2_PaidBeforeDelivery ==
    (Succeeded("Exchange")
        /\ last.a.taker # escrow_data[last.escrow].initializer_pubkey)
    => LET r == escrow_data[last.escrow]
           pay == Call("transfer", last.a.taker, r.initializer_pubkey,
                       C2_Final(r), last.a.taker)
       IN  /\ C2_Final(r) > 0
           /\ \E i \in DOMAIN last.issued :
                 /\ last.issued[i] = pay
                 /\ i < FirstCall(last.issued, "token_transfer")
           /\ \A j \in DOMAIN last.issued :
                 last.issued[j].kind = "token_transfer"
                    => /\ last.issued[j].from = r.temp_token_account_pubkey
                       /\ last.issued[j].to = last.a.dest

\* a paid settlement with royalties has completed
C2_Witness ==
    /\ Succeeded("Exchange")
    /\ last.a.taker # escrow_data[last.escrow].initializer_pubkey
    /\ metadata["m1"].readable
    /\ token[last.a.dest].amount > 0

(***************************************************************************)
(* C3                                                                      *)
(***************************************************************************)
\* C3: a record moves only Uninitialized -> Initialized, by a successful
\* InitEscrow naming it, and Initialized -> Closed, by a successful Exchange
\* naming it; every other step leaves its state as it is, and its stored
\* fields too once it is Initialized.
C3_StateMachine ==
    [][ \A e \in Escrows :
          LET s == EscrowStateOf(lamports[e], escrow_data[e])
              t == EscrowStateOf(lamports'[e], escrow_data'[e])
          IN  \/ t = s /\ (s = "Initialized" => escrow_data'[e] = escrow_data[e])
              \/ /\ s = "Uninitialized" /\ t = "Initialized"
                 /\ SucceededNext("InitEscrow") /\ last'.escrow = e
              \/ /\ s = "Initialized" /\ t = "Closed"
                 /\ SucceededNext("Exchange") /\ last'.escrow = e ]_vars

\* one record has been closed while the other is still open
C3_Witness ==
    /\ Succeeded("Exchange")
    /\ EscrowState(last.escrow) = "Closed"
    /\ \E e \in Escrows : EscrowState(e) = "Initialized"

(***************************************************************************)
(* C4                                                                      *)
(***************************************************************************)
\* the step is a successful Exchange on record e
C4_Settles(e) == SucceededNext("Exchange") /\ last'.escrow = e

\* C4 as stated: while a record is Initialized its held account is under the
\* Delegated Authority and its unit balance, one whole unit, does not change
\* until a successful Exchange on that record.
C4_BalanceUnchanged ==
    [][ \A e \in Escrows :
          EscrowStateOf(lamports[e], escrow_data[e]) = "Initialized"
          => LET h == escrow_data[e].temp_token_account_pubkey
             IN  /\ token[h].owner = pda
                 /\ (~C4_Settles(e)
                        /\ MathUnit(decimals[escrow_data[e].mint_pubkey], token[h].amount))
                       => /\ token'[h].owner = pda
                          /\ token'[h].amount = token[h].amount ]_vars

\* C4: while a record is Initialized its held account is under the Delegated
\* Authority and its unit balance never decreases: no InitEscrow, failed
\* Exchange, Exchange on another record, mint or user transfer takes units out
\* of it.  Units leave it only in a successful Exchange on that record, by a
\* transfer the Delegated Authority authorizes.
C4_UnitHeld ==
    [][ \A e \in Escrows :
          EscrowStateOf(lamports[e], escrow_data[e]) = "Initialized"
          => LET h == escrow_data[e].temp_token_account_pubkey
             IN  /\ token[h].owner = pda
                 /\ token[h].state = "Initialized"
                 /\ ~C4_Settles(e)
                       => /\ token'[h].owner = pda
                          /\ token'[h].amount >= token[h].amount
                 /\ token'[h].amount < token[h].amount
                       => /\ C4_Settles(e)
                          /\ \E i \in DOMAIN last'.issued :
                                last'.issued[i] =
                                   Call("token_transfer", h, last'.a.dest,
                                        token[h].amount, pda) ]_vars

\* units were added to the held account of an open record
C4_Witness ==
    \E e \in Escrows :
       /\ EscrowState(e) = "Initialized"
       /\ token[escrow_data[e].temp_token_account_pubkey].owner = pda
       /\ token[escrow_data[e].temp_token_account_pubkey].amount = 2
       /\ decimals[escrow_data[e].mint_pubkey] = 0

(***************************************************************************)
(* C5                                                                      *)
(***************************************************************************)
\* C5: a successful InitEscrow with amount a writes the record (initialized,
\* the signing initializer, the mint, the held account, a), hands the held
\* account to the Delegated Authority, moves the listing fee of 10,000,000
\* from the initializer to the fee recipient, and changes nothing else.
C5_InitEffects ==
    [][ SucceededNext("InitEscrow")
        => LET a == last'.a
               r == EscrowUnpackUnchecked(escrow_data'[a.escrow])
           IN  /\ a.signed
               /\ r.err = "none"
               /\ r.is_initialized
               /\ r.initializer_pubkey = a.initializer
               /\ r.mint_pubkey = a.mint
               /\ r.temp_token_account_pubkey = a.temp
               /\ r.expected_amount = a.amount
               /\ \A e \in Escrows \ {a.escrow} : escrow_data'[e] = escrow_data[e]
               /\ token' = [token EXCEPT ![a.temp].owner = "pda"]
               /\ token[a.temp].owner = a.initializer
               /\ lamports' = [lamports EXCEPT ![a.initializer] = @ - 10000000,
                                               !["fee"] = @ + 10000000]
               /\ last'.issued =
                     << Call("transfer", a.initializer, "fee", 10000000, a.initializer),
                        Call("set_authority", a.temp, "pda", 0, a.initializer) >> ]_vars

\* an escrow asking 1000 has been created
C5_Witness ==
    /\ Succeeded("InitEscrow")
    /\ last.a.amount = 1000
    /\ lamports["fee"] >= 10000000

(***************************************************************************)
(* C6                                                                      *)
(***************************************************************************)
\* the error the six preconditions of InitEscrow call for, in their order
C6_Expected(a) ==
    IF ~a.signed THEN "MissingRequiredSignature"
    ELSE IF token[a.temp].mint # a.mint THEN "InvalidMintAccount"
    ELSE IF ~MathUnit(decimals[a.mint], token[a.temp].amount) THEN "InvalidTokenAmount"
    ELSE IF lamports[a.escrow] < 1621680 THEN "NotRentExempt"
    ELSE IF escrow_data[a.escrow].is_initialized = 1 THEN "AccountAlreadyInitialized"
    ELSE IF a.recipient # "fee" THEN "InvalidSalesTaxRecipient"
    ELSE "none"

\* C6: when some of the six preconditions fail, InitEscrow returns the error of
\* the earliest failing one.
C6_CheckOrder ==
    last = NoCall
    => \A a \in InitInputs :
          (token[a.temp].state = "Initialized" /\ C6_Expected(a) # "none")
          => process_init_escrow(Ledger, a).result = C6_Expected(a)

(***************************************************************************)
(* C7                                                                      *)
(***************************************************************************)
C7_PreconditionErrors ==
    {"MissingRequiredSignature", "InvalidMintAccount", "InvalidTokenAmount",
     "NotRentExempt", "AccountAlreadyInitialized", "InvalidSalesTaxRecipient"}

\* C7: an InitEscrow that fails a precondition has issued no call and leaves
\* every record, balance and token account as it was.
C7_FailedInitNoEffect ==
    [][ (last'.op = "InitEscrow" /\ last.op = "none"
            /\ last'.result \in C7_PreconditionErrors)
        => /\ last'.issued = <<>>
           /\ UNCHANGED <<lamports, escrow_data, token>> ]_vars

\* an InitEscrow was refused for its fee recipient, the last of the checks
C7_Witness ==
    /\ last.op = "InitEscrow"
    /\ last.result = "InvalidSalesTaxRecipient"
    /\ \E e \in Escrows : EscrowState(e) = "Initialized"

(***************************************************************************)
(* C8                                                                      *)
(***************************************************************************)
\* C8: on an Initialized record no InitEscrow succeeds, and one whose other
\* inputs are valid (signed, matching mint, one whole unit held) fails with
\* AccountAlreadyInitialized whatever its amount and fee recipient.
C8_SecondInitFails ==
    last = NoCall
    => \A a \in InitInputs :
          EscrowState(a.escrow) = "Initialized"
          => LET r == process_init_escrow(Ledger, a)
             IN  /\ r.result # "Ok"
                 /\ (/\ a.signed
                     /\ token[a.temp].state = "Initialized"
                     /\ token[a.temp].mint = a.mint
                     /\ MathUnit(decimals[a.mint], token[a.temp].amount))
                       => r.result = "AccountAlreadyInitialized"

\* a second InitEscrow on a record was refused as a duplicate
C8_Witness ==
    /\ last.op = "InitEscrow"
    /\ last.result = "AccountAlreadyInitialized"
    /\ EscrowState(last.escrow) = "Initialized"
    /\ decimals["m1"] = 0

(***************************************************************************)
(* C9                                                                      *)
(***************************************************************************)
\* C9: InitEscrow succeeds only when the held balance is 10^decimals, and with
\* a signed initializer and a matching mint every other balance fails with
\* InvalidTokenAmount.
C9_OneWholeUnit ==
    /\ Succeeded("InitEscrow")
          => MathUnit(decimals[last.a.mint], token[last.a.temp].amount)
    /\ last = NoCall
          => \A a \in InitInputs :
                (/\ a.signed
                 /\ token[a.temp].state = "Initialized"
                 /\ token[a.temp].mint = a.mint
                 /\ ~MathUnit(decimals[a.mint], token[a.temp].amount))
                => process_init_escrow(Ledger, a).result = "InvalidTokenAmount"

(***************************************************************************)
(* C10                                                                     *)
(***************************************************************************)
\* C10: a signed Exchange whose amount differs from the balance of the held
\* account it supplies fails with ExpectedAmountMismatch, whatever the record,
\* the price and the other accounts, having issued no call and written nothing.
C10_AmountGuard ==
    last = NoCall
    => \A a \in ExchangeInputs :
              (/\ a.signed
               /\ token[a.temp].state = "Initialized"
               /\ a.amount # token[a.temp].amount)
              => /\ process_exchange(Ledger, a).result = "ExpectedAmountMismatch"
                 /\ process_exchange(Ledger, a).w = Ledger

\* an Exchange on an open record was refused for its amount
C10_Witness ==
    /\ last.op = "Exchange"
    /\ last.result = "ExpectedAmountMismatch"
    /\ last.issued = <<>>
    /\ EscrowState(last.escrow) = "Initialized"
    /\ FromBytes(escrow_data[last.escrow].expected_amount) = 1000

(***************************************************************************)
(* C11                                                                     *)
(***************************************************************************)
\* the Exchange reads a live held account and an initialized record
C11_Readable(a) ==
    /\ token[a.temp].state = "Initialized"
    /\ escrow_data[a.escrow].is_initialized = 1

\* the error the seven validations of Exchange call for, in their order
C11_Expected(a) ==
    LET r == escrow_data[a.escrow]
    IN  IF ~a.signed THEN "MissingRequiredSignature"
        ELSE IF a.amount # token[a.temp].amount THEN "ExpectedAmountMismatch"
        ELSE IF r.temp_token_account_pubkey # a.temp THEN "InvalidAccountData"
        ELSE IF r.initializer_pubkey # a.initializer_main THEN "InvalidAccountData"
        ELSE IF a.recipient # "fee" THEN "InvalidSalesTaxRecipient"
        ELSE IF r.mint_pubkey # a.mint THEN "InvalidAccountData"
        ELSE IF a.metadata_account # <<"metadata", a.mint>> THEN "InvalidAccountData"
        ELSE "none"

\* C11: when some of the seven validations of Exchange fail, the error of the
\* earliest failing one is returned and no call has been issued; an Exchange
\* that has issued a call has passed all seven.
C11_ValidationOrder ==
    last = NoCall
    => \A a \in ExchangeInputs :
          LET x == process_exchange(Ledger, a)
          IN  /\ (C11_Readable(a) /\ C11_Expected(a) # "none")
                    => /\ x.result = C11_Expected(a)
                       /\ x.w = Ledger
              /\ x.w.issued # <<>>
                    => /\ a.signed
                       /\ C11_Readable(a)
                       /\ C11_Expected(a) = "none"

\* an Exchange on an open record was refused for its fee recipient
C11_Witness ==
    /\ last.op = "Exchange"
    /\ last.result = "InvalidSalesTaxRecipient"
    /\ last.issued = <<>>
    /\ EscrowState(last.escrow) = "Initialized"

(***************************************************************************)
(* C12                                                                     *)
(***************************************************************************)
\* a supplied account differs from what the record of a calls for, while the
\* validations that come before that comparison pass
C12_Mismatch(a) ==
    LET r == escrow_data[a.escrow]
    IN  /\ a.signed
        /\ C11_Readable(a)
        /\ a.amount = token[a.temp].amount
        /\ \/ r.temp_token_account_pubkey # a.temp
           \/ r.initializer_pubkey # a.initializer_main
           \/ /\ a.recipient = "fee"
              /\ \/ r.mint_pubkey # a.mint
                 \/ a.metadata_account # <<"metadata", a.mint>>

\* C12: an Exchange whose held account, initializer account, mint or metadata
\* account does not match the record fails with InvalidAccountData having
\* issued no call, and an Exchange failing so leaves every record, token
\* account and balance as it was.
C12_MismatchRejected ==
    /\ [](last = NoCall
            => \A a \in ExchangeInputs :
                  C12_Mismatch(a)
                  => /\ process_exchange(Ledger, a).result = "InvalidAccountData"
                     /\ process_exchange(Ledger, a).w = Ledger)
    /\ [][ (last.op = "none" /\ last'.op = "Exchange"
                /\ last'.result = "InvalidAccountData")
            => UNCHANGED <<lamports, escrow_data, token>> ]_vars

\* an Exchange on an open record holding its unit was refused for an account
\* that does not match the record
C12_Witness ==
    /\ last.op = "Exchange"
    /\ last.result = "InvalidAccountData"
    /\ last.issued = <<>>
    /\ EscrowState(last.escrow) = "Initialized"
    /\ token[escrow_data[last.escrow].temp_token_account_pubkey].amount = 1
    /\ token[escrow_data[last.escrow].temp_token_account_pubkey].owner = pda

(***************************************************************************)
(* C13                                                                     *)
(***************************************************************************)
\* the native transfers among the calls issued, in order
NativeTransfers(issued) == SelectSeq(issued, LAMBDA c : c.kind = "transfer")

\* the last invocation is a successful paid settlement
PaidSettlement ==
    /\ Succeeded("Exchange")
    /\ last.a.taker # escrow_data[last.escrow].initializer_pubkey

\* the price stored in the record the last invocation names
StoredPrice == FromBytes(escrow_data[last.escrow].expected_amount)

\* the royalty rate of the mint the last invocation names, 0 when unreadable
RoyaltyRate ==
    IF metadata[last.a.mint].readable
    THEN metadata[last.a.mint].seller_fee_basis_points ELSE 0

\* C13: in a successful paid settlement the tax sent to the fee recipient and
\* the payment sent to the initializer are computed from the price stored in
\* the record, whatever amount the taker stated; the stated amount is the
\* balance of the held account and is what the token transfer moves.
C13_StoredPriceRules ==
    PaidSettlement
    => LET n == NativeTransfers(last.issued)
           P == StoredPrice
       IN  /\ Len(n) >= 2
           /\ n[1] = Call("transfer", last.a.taker, "fee",
                          (P * 250) \div 10000, last.a.taker)
           /\ n[Len(n)] = Call("transfer", last.a.taker,
                               escrow_data[last.escrow].initializer_pubkey,
                               P - (P * 250) \div 10000
                                 - (RoyaltyRate * P) \div 10000,
                               last.a.taker)
           /\ \E i \in DOMAIN last.issued :
                 /\ last.issued[i].kind = "token_transfer"
                 /\ last.issued[i].amount = last.a.amount

\* a paid settlement at price 1000 has completed for a taker who stated 2
C13_Witness ==
    /\ PaidSettlement
    /\ StoredPrice = 1000
    /\ last.a.amount = 2
    /\ NativeTransfers(last.issued)[1].amount = 25

(***************************************************************************)
(* C14                                                                     *)
(***************************************************************************)
\* floor(p * bps / 10000) of the 64-bit word p, computed on 128 bits
FloorBps(p, bps) == DivSmall(SubSeq(MulSmall(Wide(p), bps, 0), 1, 16), 10000).q

\* C14: for every stored price P and royalty rate R (0 when the metadata is
\* unreadable) the paid settlement computes tax = floor(P*250/10000) and
\* royalty_total = floor(P*R/10000), and when it goes on to pay the seller,
\* final = P - tax - royalty_total with nothing borrowed, so that the three
\* add up to P.
C14_FloorArithmetic ==
    calc.op = "settle"
    => LET P == calc.price
           R == IF calc.md.readable THEN calc.md.seller_fee_basis_points ELSE 0
           o == calc.out
       IN  /\ o.status # "panic"
           /\ Wide(o.tax_amount) = FloorBps(P, 250)
           /\ Wide(o.royalty_total) = FloorBps(P, R)
           /\ o.status = "paid"
                 => /\ ~SubWord(P, o.tax_amount).overflow
                    /\ ~SubWord(SubWord(P, o.tax_amount).bytes, o.royalty_total).overflow
                    /\ o.final_amount_for_seller =
                          SubWord(SubWord(P, o.tax_amount).bytes, o.royalty_total).bytes

(***************************************************************************)
(* C15                                                                     *)
(***************************************************************************)
\* the creator list of the mint the last invocation names
CreatorsOfLast == metadata[last.a.mint].creators.list

\* C15: in a successful paid settlement on a mint whose readable metadata
\* carries a creator list, the native transfers are the tax, then one payout
\* per creator in metadata order, then the seller payment; the i-th payout goes
\* from the taker to the i-th creator, who is the i-th supplied account, and
\* is floor(share_i * royalty_total / 100).  At price 1000 with 500 bps and one
\* creator holding share 100 the amounts are 25, 50 and 925.
C15_CreatorPayouts ==
    (PaidSettlement
        /\ metadata[last.a.mint].readable
        /\ metadata[last.a.mint].creators.some)
    => LET n == NativeTransfers(last.issued)
           c == CreatorsOfLast
           royalty == (RoyaltyRate * StoredPrice) \div 10000
       IN  /\ Len(n) = Len(c) + 2
           /\ Len(last.a.creator_accounts) = Len(c)
           /\ \A i \in DOMAIN c :
                 /\ c[i].address = last.a.creator_accounts[i]
                 /\ n[i + 1] = Call("transfer", last.a.taker, c[i].address,
                                    (c[i].share * royalty) \div 100, last.a.taker)
           /\ (StoredPrice = 1000 /\ RoyaltyRate = 500
                  /\ c = <<[address |-> "carol", share |-> 100]>>)
                 => /\ n[1].amount = 25
                    /\ n[2].amount = 50
                    /\ n[3].amount = 925

\* the settlement at price 1000 with 500 bps and one creator of share 100
C15_Witness ==
    /\ PaidSettlement
    /\ StoredPrice = 1000
    /\ metadata[last.a.mint].readable
    /\ CreatorsOfLast = <<[address |-> "carol", share |-> 100]>>
    /\ lamports["carol"] = 50

(***************************************************************************)
(* C16                                                                     *)
(***************************************************************************)
\* a is a paid Exchange that passes the seven validations
PaidCall(a) ==
    /\ C11_Readable(a)
    /\ C11_Expected(a) = "none"
    /\ a.taker # escrow_data[a.escrow].initializer_pubkey

\* the price stored in the record a names
PriceOf(a) == FromBytes(escrow_data[a.escrow].expected_amount)

\* C16: a paid Exchange on a mint whose readable metadata has a royalty rate
\* that with the sales tax exceeds 10000 bps fails with InvalidRoyaltyFee, and
\* no call, the sales-tax transfer included, has been issued when it fails.
C16_RoyaltyFeeFirst ==
    last = NoCall
    => \A a \in ExchangeInputs :
          (/\ PaidCall(a)
           /\ metadata[a.mint].readable
           /\ metadata[a.mint].seller_fee_basis_points + 250 > 10000)
          => /\ process_exchange(Ledger, a).result = "InvalidRoyaltyFee"
             /\ process_exchange(Ledger, a).w.issued = <<>>

(***************************************************************************)
(* C17                                                                     *)
(***************************************************************************)
\* the royalty rate that applies to a, 0 when the metadata is unreadable
RateOf(a) ==
    IF metadata[a.mint].readable
    THEN metadata[a.mint].seller_fee_basis_points ELSE 0

\* price - tax - royalty_total for a
FinalOf(a) ==
    PriceOf(a) - (PriceOf(a) * 250) \div 10000 - (RateOf(a) * PriceOf(a)) \div 10000

\* C17: a paid Exchange whose final amount is not strictly positive fails with
\* InvalidFinalAmount, and no tax, royalty or payment transfer has been issued
\* when it fails.
C17_FinalAmountFirst ==
    last = NoCall
    => \A a \in ExchangeInputs :
          (/\ PaidCall(a)
           /\ RateOf(a) + 250 <= 10000
           /\ ~metadata[a.mint].creators.some
           /\ FinalOf(a) <= 0)
          => /\ process_exchange(Ledger, a).result = "InvalidFinalAmount"
             /\ NativeTransfers(process_exchange(Ledger, a).w.issued) = <<>>

(***************************************************************************)
(* C18                                                                     *)
(***************************************************************************)
\* the creator accounts a supplies differ from the creator list l in length or
\* at some position
CreatorsDiffer(a, l) ==
    \/ Len(a.creator_accounts) # Len(l)
    \/ \E i \in DOMAIN l : l[i].address # a.creator_accounts[i]

\* C18: a paid Exchange whose supplied creator accounts differ from the
\* metadata creator list in length or at any position fails with
\* CreatorMismatch, and no creator has been sent a payout when it fails, those
\* at earlier matching positions included.
C18_MismatchBeforePayout ==
    last = NoCall
    => \A a \in ExchangeInputs :
          (/\ PaidCall(a)
           /\ metadata[a.mint].readable
           /\ metadata[a.mint].seller_fee_basis_points + 250 <= 10000
           /\ metadata[a.mint].creators.some
           /\ CreatorsDiffer(a, metadata[a.mint].creators.list))
          => LET x == process_exchange(Ledger, a)
             IN  /\ x.result = "CreatorMismatch"
                 /\ \A i \in DOMAIN x.w.issued : x.w.issued[i].to \notin Creators

(***************************************************************************)
(* C19                                                                     *)
(***************************************************************************)
\* the number of creators the metadata of the mint of a declares
CreatorCount(a) ==
    IF metadata[a.mint].creators.some THEN Len(metadata[a.mint].creators.list) ELSE 0

\* C19 as stated: a paid Exchange that supplies a number of creator accounts
\* other than the number of creators in the readable metadata, none declared
\* included, fails with CreatorMismatch.
C19_CountMustMatch ==
    last = NoCall
    => \A a \in ExchangeInputs :
          (/\ PaidCall(a)
           /\ metadata[a.mint].readable
           /\ metadata[a.mint].seller_fee_basis_points + 250 <= 10000
           /\ Len(a.creator_accounts) # CreatorCount(a))
          => process_exchange(Ledger, a).result = "CreatorMismatch"

\* C19: when the readable metadata carries a creator list, a paid Exchange
\* supplying another number of creator accounts fails with CreatorMismatch
\* once the sales tax is paid (with the system program's error when the taker
\* cannot pay the tax) and no creator is sent anything; when the metadata
\* carries no creator list the supplied creator accounts are ignored: the
\* Exchange does what it does with none supplied.
C19_CountChecked ==
    last = NoCall
    => \A a \in ExchangeInputs :
          (/\ PaidCall(a)
           /\ metadata[a.mint].readable
           /\ metadata[a.mint].seller_fee_basis_points + 250 <= 10000)
          => LET x == process_exchange(Ledger, a)
                 m == metadata[a.mint].creators
             IN  /\ (m.some /\ Len(a.creator_accounts) # Len(m.list))
                       => /\ x.result = IF lamports[a.taker] < (PriceOf(a) * 250) \div 10000
                                        THEN "InsufficientLamports"
                                        ELSE "CreatorMismatch"
                          /\ Len(NativeTransfers(x.w.issued)) <= 1
                 /\ ~m.some
                       => x = process_exchange(Ledger, [a EXCEPT !.creator_accounts = <<>>])

\* a paid settlement completed though creator accounts were supplied for a
\* mint whose metadata declares no creators
C19_Witness ==
    /\ PaidSettlement
    /\ metadata[last.a.mint].readable
    /\ ~metadata[last.a.mint].creators.some
    /\ Len(last.a.creator_accounts) = 2

(***************************************************************************)
(* C20                                                                     *)
(***************************************************************************)
\* the held units of a can be delivered and the held account closed
Deliverable(a) ==
    /\ a.dest # a.temp
    /\ token[a.dest].state = "Initialized"
    /\ token[a.dest].mint = token[a.temp].mint
    /\ token[a.temp].owner = pda

\* C20: a paid Exchange on a mint whose metadata cannot be read never fails
\* with InvalidRoyaltyFee or CreatorMismatch and sends nothing to a creator,
\* whatever creator accounts are supplied; when the price is positive, the
\* taker holds it and the units can be delivered, the Exchange completes with
\* two native transfers: the tax to the fee recipient and price minus tax to
\* the initializer.
C20_UnreadableMetadata ==
    last = NoCall
    => \A a \in ExchangeInputs :
          (PaidCall(a) /\ ~metadata[a.mint].readable)
          => LET x == process_exchange(Ledger, a)
                 n == NativeTransfers(x.w.issued)
                 tax == (PriceOf(a) * 250) \div 10000
             IN  /\ x.result \notin {"InvalidRoyaltyFee", "CreatorMismatch"}
                 /\ \A i \in DOMAIN n : n[i].to \notin Creators
                 /\ (PriceOf(a) > 0 /\ lamports[a.taker] >= PriceOf(a) /\ Deliverable(a))
                       => /\ x.result = "Ok"
                          /\ n = <<Call("transfer", a.taker, a.recipient, tax, a.taker),
                                   Call("transfer", a.taker,
                                        escrow_data[a.escrow].initializer_pubkey,
                                        PriceOf(a) - tax, a.taker)>>

\* a paid settlement at price 1000 completed on a mint without readable
\* metadata: 25 to the fee recipient, 975 to the initializer
C20_Witness ==
    /\ PaidSettlement
    /\ ~metadata[last.a.mint].readable
    /\ StoredPrice = 1000
    /\ Len(NativeTransfers(last.issued)) = 2
    /\ NativeTransfers(last.issued)[2].amount = 975

(***************************************************************************)
(* C21                                                                     *)
(***************************************************************************)
\* the step is a successful Exchange whose taker is the stored initializer
CancelledNext ==
    /\ last.op = "none"
    /\ SucceededNext("Exchange")
    /\ last'.a.taker = escrow_data[last'.escrow].initializer_pubkey

\* C21: a successful Exchange by the record's initializer issues no native
\* transfer (no tax, royalty or payment), moves the whole held balance to the
\* taker's destination, closes the held account and the record, and raises the
\* initializer's native balance by exactly the native balances of the held
\* account and of the record; the fee recipient's balance does not change.
C21_Cancellation ==
    [][ CancelledNext
        => LET a == last'.a
           IN  /\ NativeTransfers(last'.issued) = <<>>
               /\ \E i \in DOMAIN last'.issued :
                     last'.issued[i] = Call("token_transfer", a.temp, a.dest,
                                            token[a.temp].amount, pda)
               /\ a.dest # a.temp
                     => token'[a.dest].amount = token[a.dest].amount + token[a.temp].amount
               /\ token'[a.temp].state = "Closed"
               /\ lamports'[a.temp] = 0
               /\ lamports'[a.escrow] = 0
               /\ lamports'[a.taker] = lamports[a.taker] + lamports[a.temp]
                                                        + lamports[a.escrow]
               /\ lamports'[SALES_TAX_RECIPIENT_INTERNAL]
                     = lamports[SALES_TAX_RECIPIENT_INTERNAL] ]_vars

\* the initializer has taken the unit back: the destination holds it and the
\* fee recipient has received the listing fee only
C21_Witness ==
    /\ Succeeded("Exchange")
    /\ last.a.taker = escrow_data[last.escrow].initializer_pubkey
    /\ token[last.a.dest].amount = 1
    /\ lamports[SALES_TAX_RECIPIENT_INTERNAL] = LISTING_FEE

(***************************************************************************)
(* C22                                                                     *)
(***************************************************************************)
\* floor(P * 250 / 10000) as a 64-bit word
FloorTax(P) == SubSeq(FloorBps(P, 250), 1, 8)

\* C22: a paid settlement at price P on a mint without readable metadata
\* that pays the seller sends the fee recipient exactly floor(P*250/10000)
\* and the initializer exactly P - floor(P*250/10000); at P = 1000 these are
\* 25 and 975.
C22_NoMetadataAmounts ==
    (calc.op = "settle" /\ ~calc.md.readable /\ calc.out.status = "paid")
    => /\ calc.out.tax_amount = FloorTax(calc.price)
       /\ calc.out.final_amount_for_seller = SubWord(calc.price, FloorTax(calc.price)).bytes
       /\ calc.price = ToBytes(1000)
             => /\ calc.out.tax_amount = ToBytes(25)
                /\ calc.out.final_amount_for_seller = ToBytes(975)

(***************************************************************************)
(* C23                                                                     *)
(***************************************************************************)
\* the 128-bit sum of two 64-bit words
WideSum(x, y) == SubSeq(AddFrom(Wide(x), Wide(y), 0), 1, 16)

\* the 128-bit word w is within the u64 range
FitsWord(w) == \A i \in 9..16 : w[i] = 0

\* C23: closing the record adds the record's balance to the initializer's
\* with an overflow-checked 64-bit addition: when the sum exceeds the u64
\* range the close fails with AmountOverflow and both balances are as they
\* were; otherwise the initializer's balance is the exact sum and the record's
\* balance is 0.
C23_CheckedClose ==
    calc.op = "close"
    => LET sum == WideSum(calc.initializer, calc.escrow)
       IN  IF FitsWord(sum)
           THEN /\ calc.out.err = "none"
                /\ Wide(calc.out.initializer) = sum
                /\ calc.out.escrow = ToBytes(0)
           ELSE /\ calc.out.err = "AmountOverflow"
                /\ calc.out.initializer = calc.initializer
                /\ calc.out.escrow = calc.escrow

\* the record's rent of 5000000 was added to an initializer holding 2^64 -
\* 5000000, one more than the largest balance the sum fits with
C23_Witness ==
    /\ calc.op = "close"
    /\ calc.escrow = ToBytes(5000000)
    /\ calc.initializer = <<192, 180, 179, 255, 255, 255, 255, 255>>
    /\ calc.out.err = "AmountOverflow"

(***************************************************************************)
(* C24                                                                     *)
(***************************************************************************)
\* C24: of two Exchange attempts on the same Initialized record that the
\* ledger runs one after the other, only the first succeeds: in the state a
\* successful Exchange leaves, every Exchange naming the same record, by any
\* taker with any accounts, fails before it issues a call, so the unit is not
\* delivered again and the seller is not paid again.
C24_SecondAttemptFails ==
    Succeeded("Exchange")
    => \A b \in ExchangeInputs :
          b.escrow = last.escrow
          => /\ process_exchange(Ledger, b).result # "Ok"
             /\ process_exchange(Ledger, b).w.issued = <<>>

\* a paid settlement has succeeded on a record another taker could have
\* cancelled: its initializer is not the taker
C24_Witness ==
    /\ PaidSettlement
    /\ last.a.taker = "bob"
    /\ escrow_data[last.escrow].initializer_pubkey = "alice"
    /\ token[last.a.temp].state = "Closed"

(***************************************************************************)
(* C25                                                                     *)
(***************************************************************************)
\* the Exchange by which the initializer of record e takes the unit back into
\* dest, with creator accounts c
CancelCall(e, dest, c) ==
    LET r == escrow_data[e]
    IN  [taker |-> r.initializer_pubkey, signed |-> TRUE, dest |-> dest,
         temp |-> r.temp_token_account_pubkey,
         initializer_main |-> r.initializer_pubkey, escrow |-> e,
         recipient |-> SALES_TAX_RECIPIENT_INTERNAL, mint |-> r.mint_pubkey,
         metadata_account |-> get_metadata_account(r.mint_pubkey),
         creator_accounts |-> c,
         amount |-> token[r.temp_token_account_pubkey].amount]

\* in every Initialized state the initializer's Exchange into a live account
\* of the mint succeeds
C25_Cancellable ==
    last = NoCall
    => \A e \in Escrows :
          EscrowState(e) = "Initialized"
          => \A dest \in DestAccts, c \in CreatorLists :
                Deliverable(CancelCall(e, dest, c))
                => process_exchange(Ledger, CancelCall(e, dest, c)).result = "Ok"

\* an Initialized record stays Initialized, its unit held, through every step
\* but a successful Exchange on it
C25_Persists ==
    \A e \in Escrows :
       (EscrowState(e) = "Initialized" /\ ~(SucceededNext("Exchange") /\ last'.escrow = e))
       => LET h == escrow_data[e].temp_token_account_pubkey
          IN  /\ EscrowStateOf(lamports'[e], escrow_data'[e]) = "Initialized"
              /\ escrow_data'[e].temp_token_account_pubkey = h
              /\ token'[h].state = "Initialized"
              /\ token'[h].owner = pda
              /\ token'[h].amount >= token[h].amount

\* C25: there is no timeout.  An Initialized escrow stays Initialized with
\* its unit held through failed instructions and operations on other escrows
\* until an Exchange on it succeeds, and in every Initialized state the
\* Exchange signed by the initializer with the record's held account, mint,
\* derived metadata account, the configured fee recipient and the current
\* held balance succeeds, whatever the price, the metadata and the royalty
\* rate.
C25_NoTimeout == [](C25_Cancellable) /\ [][C25_Persists]_vars

\* the initializer has cancelled an escrow no other taker could settle: the
\* royalty rate of its mint is 9800 bps
C25_Witness ==
    /\ Succeeded("Exchange")
    /\ last.a.taker = escrow_data[last.escrow].initializer_pubkey
    /\ metadata[last.a.mint].readable
    /\ metadata[last.a.mint].seller_fee_basis_points = 9800

(***************************************************************************)
(* C26                                                                     *)
(***************************************************************************)
\* C26: once a record has been initialized, no step, a later InitEscrow or
\* Exchange on it included, successful or failed, changes its initializer,
\* mint, held account or expected amount (or its flag).
C26_FieldsImmutable ==
    [][ \A e \in Escrows :
          escrow_data[e].is_initialized = 1
          => /\ escrow_data'[e].is_initialized = 1
             /\ escrow_data'[e].initializer_pubkey = escrow_data[e].initializer_pubkey
             /\ escrow_data'[e].mint_pubkey = escrow_data[e].mint_pubkey
             /\ escrow_data'[e].temp_token_account_pubkey
                   = escrow_data[e].temp_token_account_pubkey
             /\ escrow_data'[e].expected_amount = escrow_data[e].expected_amount ]_vars

\* an Exchange has succeeded on a record and has left its four fields in
\* place: bob's record still names his held account and price 1000
C26_Witness ==
    /\ Succeeded("Exchange")
    /\ lamports[last.escrow] = 0
    /\ escrow_data[last.escrow] =
          EscrowPack([is_initialized |-> TRUE, initializer_pubkey |-> "bob",
                      mint_pubkey |-> "m1", temp_token_account_pubkey |-> "tb",
                      expected_amount |-> 1000])

(***************************************************************************)
(* C27                                                                     *)
(***************************************************************************)
RECURSIVE SentTo(_, _)
\* what the native transfers n send to account x
SentTo(n, x) ==
    IF n = <<>> THEN 0
    ELSE (IF Head(n).to = x THEN Head(n).amount ELSE 0) + SentTo(Tail(n), x)

RECURSIVE Total(_)
\* the sum of the amounts of the native transfers n
Total(n) == IF n = <<>> THEN 0 ELSE Head(n).amount + Total(Tail(n))

\* C27: a successful Exchange conserves native value.  Every native transfer
\* is from the taker to the fee recipient, a supplied creator or the
\* initializer; the taker is debited their total, which is at most the stored
\* price; every account is credited exactly what was sent to it; the balances
\* of the held account and the record go in full to the initializer and both
\* are left at 0; no other balance changes.
C27_Conservation ==
    [][ (last.op = "none" /\ SucceededNext("Exchange"))
        => LET a == last'.a
               n == NativeTransfers(last'.issued)
               released(x) == IF x = a.initializer_main
                              THEN lamports[a.temp] + lamports[a.escrow] ELSE 0
               debit(x) == IF x = a.taker THEN Total(n) ELSE 0
           IN  /\ \A i \in DOMAIN n :
                     /\ n[i].from = a.taker
                     /\ n[i].to \in {SALES_TAX_RECIPIENT_INTERNAL, a.initializer_main}
                                      \cup {a.creator_accounts[j] :
                                               j \in DOMAIN a.creator_accounts}
               /\ Total(n) <= FromBytes(escrow_data[a.escrow].expected_amount)
               /\ lamports'[a.temp] = 0
               /\ lamports'[a.escrow] = 0
               /\ \A x \in Accounts \ {a.temp, a.escrow} :
                     lamports'[x] = lamports[x] + SentTo(n, x) + released(x) - debit(x) ]_vars

\* a paid settlement at price 1000 with 500 bps shared 60/40 has paid carol 30
\* and dave 20
C27_Witness ==
    /\ PaidSettlement
    /\ Total(NativeTransfers(last.issued)) = 1000
    /\ lamports["carol"] = 30
    /\ lamports["dave"] = 20

(***************************************************************************)
(* C28                                                                     *)
(***************************************************************************)
\* C28: in a successful paid settlement the initializer is paid the whole of
\* the price that was not transferred as sales tax or as creator payouts:
\* seller payment = price - tax transferred - creator payouts transferred, so
\* the transfers add up to the price.
C28_SellerKeepsRest ==
    PaidSettlement
    => LET n == NativeTransfers(last.issued)
       IN  /\ n[Len(n)].to = escrow_data[last.escrow].initializer_pubkey
           /\ n[Len(n)].amount = StoredPrice - Total(SubSeq(n, 1, Len(n) - 1))

(***************************************************************************)
(* C29                                                                     *)
(***************************************************************************)
\* C29: an Exchange naming a record that is not Initialized, never
\* initialized or already closed, fails before it issues any call and leaves
\* every native balance, every token account and every record as it was.
C29_NotInitializedNoEffect ==
    [][ (last.op = "none" /\ last'.op = "Exchange"
            /\ EscrowState(last'.escrow) # "Initialized")
        => /\ last'.result # "Ok"
           /\ last'.issued = <<>>
           /\ UNCHANGED <<lamports, token, escrow_data>> ]_vars

\* an Exchange on a funded record slot that was never initialized has been
\* refused
C29_Witness ==
    /\ last.op = "Exchange"
    /\ last.result = "UninitializedAccount"
    /\ escrow_data[last.escrow] = ZeroedEscrow
    /\ lamports[last.escrow] = 5000000

(***************************************************************************)
(* C30                                                                     *)
(***************************************************************************)
\* what the decoder made of the instruction data it was last given
C30_Decoded ==
    calc.op \in {"decode", "process"}
    => LET d == calc.input
           i == calc.instruction
       IN  IF d = <<>> \/ Len(d) < 9 \/ d[1] \notin {0, 1}
           THEN i.err = "InvalidInstruction"
           ELSE /\ i.err = "none"
                /\ i.tag = (IF d[1] = 0 THEN "InitEscrow" ELSE "Exchange")
                /\ \A k \in 1..8 : i.amount[k] = d[k + 1]
                /\ SmallWord(i.amount)
                      => FromBytes(i.amount)
                            = d[2] + 256 * d[3] + 65536 * d[4] + 16777216 * d[5]
                /\ (d[2] = 232 /\ d[3] = 3) => i.amount = ToBytes(1000)

\* an invocation whose data does not decode runs no handler and changes
\* nothing; one that decodes is the handler of its variant
C30_Dispatched ==
    (calc'.op = "process" /\ calc' # calc)
    => IF calc'.instruction.err # "none"
       THEN /\ calc'.result = "InvalidInstruction"
            /\ calc'.issued = <<>>
            /\ UNCHANGED <<lamports, token, escrow_data>>
       ELSE calc'.result \in
               {process_init_escrow(Ledger,
                    [ProcessInit EXCEPT !.amount = FromBytes(calc'.instruction.amount)]).result}
               \cup {process_exchange(Ledger,
                    [ProcessExchange(t) EXCEPT
                        !.amount = FromBytes(calc'.instruction.amount)]).result :
                        t \in Users}

\* C30: instruction data whose first byte is 0 followed by at least 8 bytes
\* decodes to InitEscrow with the little-endian u64 of the next 8 bytes as
\* amount, first byte 1 likewise to Exchange; empty data, another first byte
\* or fewer than 8 payload bytes give InvalidInstruction, and then no handler
\* runs and nothing changes.
C30_Decoding == [](C30_Decoded) /\ [][C30_Dispatched]_vars

\* tag 0 with 7 payload bytes was refused by the program
C30_Witness ==
    /\ calc.op = "process"
    /\ Len(calc.input) = 8
    /\ calc.input[1] = 0
    /\ calc.result = "InvalidInstruction"

(***************************************************************************)
(* C31                                                                     *)
(***************************************************************************)
\* records a program may pack
C31_Records ==
    [is_initialized : BOOLEAN, initializer_pubkey : Users \cup {DefaultPubkey},
     mint_pubkey : Mints, temp_token_account_pubkey : HeldAccts,
     expected_amount : PriceSet \cup {1, 255, 256, 65536, 16777216, 2147483647}]

\* unpacking what was packed gives back every field, and a flag byte other
\* than 0 and 1 does not unpack
C31_Codec ==
    /\ \A r \in C31_Records :
          LET u == EscrowUnpackUnchecked(EscrowPack(r))
          IN  /\ u.err = "none"
              /\ u.is_initialized = r.is_initialized
              /\ u.initializer_pubkey = r.initializer_pubkey
              /\ u.mint_pubkey = r.mint_pubkey
              /\ u.temp_token_account_pubkey = r.temp_token_account_pubkey
              /\ u.expected_amount = r.expected_amount
    /\ \A e \in Escrows, b \in {2, 255} :
          /\ EscrowUnpackUnchecked([escrow_data[e] EXCEPT !.is_initialized = b]).err
                = "InvalidAccountData"
          /\ EscrowUnpack([escrow_data[e] EXCEPT !.is_initialized = b]).err
                = "InvalidAccountData"

\* what a successful InitEscrow wrote unpacks to its arguments, and what a
\* successful Exchange unpacked is what the record holds
C31_ReadBack ==
    /\ (last.op = "none" /\ SucceededNext("InitEscrow"))
          => LET u == EscrowUnpack(escrow_data'[last'.escrow])
             IN  /\ u.err = "none"
                 /\ u.initializer_pubkey = last'.a.initializer
                 /\ u.mint_pubkey = last'.a.mint
                 /\ u.temp_token_account_pubkey = last'.a.temp
                 /\ u.expected_amount = last'.a.amount
    /\ (last.op = "none" /\ SucceededNext("Exchange"))
          => LET u == EscrowUnpack(escrow_data[last'.escrow])
             IN  /\ u.err = "none"
                 /\ u.initializer_pubkey = last'.a.initializer_main
                 /\ u.mint_pubkey = last'.a.mint
                 /\ u.temp_token_account_pubkey = last'.a.temp

HeldOf(e) == escrow_data[e].temp_token_account_pubkey

\* C32 as stated: an InitEscrow or Exchange on one record, successful or
\* failed, leaves every other record and the held account of every other
\* Initialized record, balance and authority, unchanged.
C32_OthersUntouched ==
    [][ (last.op = "none" /\ InvokedNext)
        => \A e \in Escrows \ {last'.escrow} :
              /\ escrow_data'[e] = escrow_data[e]
              /\ lamports'[e] = lamports[e]
              /\ EscrowState(e) = "Initialized" => token'[HeldOf(e)] = token[HeldOf(e)] ]_vars

\* C32: an InitEscrow or Exchange on one record, successful or failed,
\* leaves every other record unchanged and never changes the authority of
\* another escrow's held account nor takes units out of it; the balance of
\* another escrow's held account changes only when a successful Exchange
\* names it as the taker's destination, which adds the delivered units to it.
\* A successful Exchange takes units only out of the held account named in
\* the record it closes.
C32_Independent ==
    [][ (last.op = "none" /\ InvokedNext)
        => /\ \A e \in Escrows \ {last'.escrow} :
                 /\ escrow_data'[e] = escrow_data[e]
                 /\ lamports'[e] = lamports[e]
                 /\ EscrowState(e) = "Initialized"
                       => LET h == HeldOf(e)
                          IN  /\ token'[h].owner = token[h].owner
                              /\ token'[h].state = token[h].state
                              /\ token'[h].amount >= token[h].amount
                              /\ token'[h].amount # token[h].amount
                                    => /\ SucceededNext("Exchange")
                                       /\ last'.a.dest = h
                                       /\ token'[h].amount
                                             = token[h].amount + token[last'.a.temp].amount
           /\ \A t \in TokenAccts :
                 token'[t].amount < token[t].amount
                 => /\ SucceededNext("Exchange")
                    /\ t = HeldOf(last'.escrow) ]_vars

\* an Exchange on one record has delivered its unit into the held account of
\* another record, still Initialized
C32_Witness ==
    /\ Succeeded("Exchange")
    /\ \E e \in Escrows \ {last.escrow} :
          /\ EscrowState(e) = "Initialized"
          /\ HeldOf(e) = last.a.dest
          /\ token[HeldOf(e)].amount = 2

(***************************************************************************)
(* C33                                                                     *)
(***************************************************************************)
\* C33: the fee recipient is credited the listing fee by every successful
\* InitEscrow and floor(price*250/10000) by every successful paid settlement,
\* and nothing else: whatever the metadata, the tax a paid settlement
\* transfers at price P is floor(P*250/10000).
C33_TaxCredited ==
    (calc.op = "settle" /\ calc.out.status = "paid")
    => Wide(calc.out.tax_amount) = FloorBps(calc.price, SALES_TAX)

(***************************************************************************)
(* C34                                                                     *)
(***************************************************************************)
\* C34: in a successful paid settlement what is kept from the seller as
\* royalty is what the creators were paid, up to flooring dust of less than
\* one per creator; with no creator paid nothing is kept from the seller.
C34_RoyaltyReachesCreators ==
    PaidSettlement
    => LET n == NativeTransfers(last.issued)
           creators == Len(n) - 2
           withheld == StoredPrice - n[1].amount - n[Len(n)].amount
           payouts == Total(n) - n[1].amount - n[Len(n)].amount
       IN  IF creators = 0 THEN withheld = 0
           ELSE withheld - payouts >= 0 /\ withheld - payouts < creators

(***************************************************************************)
(* C35                                                                     *)
(***************************************************************************)
\* C35: for every stored price and every royalty rate the products
\* price * 250 and seller_fee_bps * price stay within the u64 range: neither
\* multiplication overflows, and no settlement panics on one.
C35_ProductsFit ==
    calc.op = "settle"
    => /\ ~tax_amount_u64(calc.price).overflow
       /\ calc.md.readable
             => ~royalty_total_u64(calc.md.seller_fee_basis_points, calc.price).overflow
       /\ calc.out.status # "panic"

(***************************************************************************)
(* C36                                                                     *)
(***************************************************************************)
\* C36: the one-whole-unit check of InitEscrow compares with 10^decimals
\* without overflow of the machine word: no InitEscrow is aborted by the
\* power, and no InitEscrow on a held account with balance 0 is accepted.
C36_UnitWithoutOverflow ==
    /\ last.op = "InitEscrow" => last.result # "ProgramFailedToComplete"
    /\ Succeeded("InitEscrow")
          => /\ token[last.a.temp].amount # 0
             /\ ~UnitOf[decimals[last.a.mint]].overflow

(***************************************************************************)
(* C37                                                                     *)
(***************************************************************************)
\* C37: a paid settlement that reaches the seller payment never underflows
\* in price - tax - royalty_total: tax + royalty_total is at most the price,
\* the final amount is not a wrapped value, it is 0 only when tax and
\* royalty_total add up to the price, and no settlement panics on the
\* subtraction.
C37_NoUnderflow ==
    calc.op = "settle"
    => LET o == calc.out
           sum == AddWord(o.tax_amount, o.royalty_total)
           rate == IF calc.md.readable THEN calc.md.seller_fee_basis_points ELSE 0
       IN  /\ o.status \in {"paid", "InvalidFinalAmount"}
                 => /\ ~sum.overflow
                    /\ ~SubWord(calc.price, sum.bytes).overflow
                    /\ ~final_amount_u64(calc.price, o.tax_amount, o.royalty_total).overflow
                    /\ o.final_amount_for_seller = SubWord(calc.price, sum.bytes).bytes
           /\ o.status = "InvalidFinalAmount" => sum.bytes = calc.price
           /\ o.status = "panic"
                 => \/ tax_amount_u64(calc.price).overflow
                    \/ royalty_total_u64(rate, calc.price).overflow

\* price 40 at 9750 bps: tax 1 and royalty 39 leave exactly 0
C37_Witness ==
    /\ calc.op = "settle"
    /\ calc.price = ToBytes(40)
    /\ calc.md.readable
    /\ calc.md.seller_fee_basis_points = 9750
    /\ calc.out.status = "InvalidFinalAmount"
    /\ calc.out.royalty_total = ToBytes(39)

(***************************************************************************)
(* C38                                                                     *)
(***************************************************************************)
\* the outcome of InitEscrow does not depend on the price asked
C38_ZeroAccepted ==
    last = NoCall
    => \A a \in InitInputs :
          process_init_escrow(Ledger, a).result
             = process_init_escrow(Ledger, [a EXCEPT !.amount = 0]).result

\* a is an Exchange by another party on an Initialized record of price 0
C38_ZeroPriceCall(a) ==
    /\ EscrowState(a.escrow) = "Initialized"
    /\ PriceOf(a) = 0
    /\ a.taker # escrow_data[a.escrow].initializer_pubkey

\* every Exchange by another party on a record of price 0 that passes the
\* validations fails with InvalidFinalAmount
C38_AlwaysInvalidFinalAmount ==
    last = NoCall
    => \A a \in ExchangeInputs :
          (C38_ZeroPriceCall(a) /\ PaidCall(a))
          => process_exchange(Ledger, a).result = "InvalidFinalAmount"

\* every Exchange by another party on a record of price 0 fails; one that
\* passes the validations fails in the payment steps, with InvalidFinalAmount
\* unless the royalty-rate or creator check has failed before
C38_NeverSold ==
    last = NoCall
    => \A a \in ExchangeInputs :
          C38_ZeroPriceCall(a)
          => LET x == process_exchange(Ledger, a)
                 md == metadata[a.mint]
             IN  /\ x.result # "Ok"
                 /\ PaidCall(a)
                       => /\ x.result \in {"InvalidFinalAmount", "InvalidRoyaltyFee",
                                            "CreatorMismatch"}
                          /\ ~md.readable => x.result = "InvalidFinalAmount"
                          /\ (md.readable /\ ~md.creators.some
                                /\ md.seller_fee_basis_points + SALES_TAX <= 10000)
                                => x.result = "InvalidFinalAmount"
                          /\ x.result = "InvalidRoyaltyFee"
                                => md.seller_fee_basis_points + SALES_TAX > 10000

\* a record of price 0 leaves the Initialized state only through a successful
\* Exchange of its initializer
C38_ClosedByCancellation ==
    \A e \in Escrows :
       (/\ EscrowState(e) = "Initialized"
        /\ FromBytes(escrow_data[e].expected_amount) = 0
        /\ EscrowStateOf(lamports'[e], escrow_data'[e]) # "Initialized")
       => /\ SucceededNext("Exchange")
          /\ last'.escrow = e
          /\ last'.a.taker = escrow_data[e].initializer_pubkey

\* C38: InitEscrow accepts a price of 0 as it accepts any other; every
\* Exchange on a record of price 0 by a taker other than the initializer
\* fails, with InvalidFinalAmount when the validations and the royalty-rate
\* and creator checks before the final amount pass, and the record is closed
\* only by its initializer's Exchange.
C38_ZeroPrice ==
    /\ [](C38_ZeroAccepted /\ C38_NeverSold)
    /\ [][C38_ClosedByCancellation]_vars

\* a record of price 0 is Initialized and the last Exchange on it failed with
\* InvalidFinalAmount
C38_Witness ==
    /\ last.op = "Exchange"
    /\ last.result = "InvalidFinalAmount"
    /\ EscrowState(last.escrow) = "Initialized"
    /\ StoredPrice = 0

(***************************************************************************)
(* C39                                                                     *)
(***************************************************************************)
\* a is an Exchange by the initializer stored in the record it names
C39_ByInitializer(a) ==
    /\ C11_Readable(a)
    /\ a.taker = escrow_data[a.escrow].initializer_pubkey

\* C39: an Exchange by the initializer is validated like any other: when the
\* taker's amount differs from the held balance, the fee recipient is not the
\* configured one, or the held account, the mint or the metadata account does
\* not match the record, it fails with the error of the earliest failing
\* validation, issues no call and changes nothing; and whatever the price and
\* the metadata, it never fails with InvalidRoyaltyFee, CreatorMismatch or
\* InvalidFinalAmount.
C39_CancellationValidated ==
    last = NoCall
    => \A a \in ExchangeInputs :
          C39_ByInitializer(a)
          => LET x == process_exchange(Ledger, a)
                 r == escrow_data[a.escrow]
             IN  /\ x.result \notin {"InvalidRoyaltyFee", "CreatorMismatch",
                                     "InvalidFinalAmount"}
                 /\ C11_Expected(a) # "none"
                       => /\ x.result = C11_Expected(a)
                          /\ x.w = Ledger
                 /\ (\/ a.amount # token[a.temp].amount
                     \/ a.recipient # SALES_TAX_RECIPIENT_INTERNAL
                     \/ a.temp # r.temp_token_account_pubkey
                     \/ a.mint # r.mint_pubkey
                     \/ a.metadata_account # get_metadata_account(a.mint))
                       => /\ x.result # "Ok"
                          /\ x.w.token = token
                          /\ x.w.issued = <<>>

\* the initializer has taken back the unit of a record of price 0 on a mint
\* whose royalty rate is 9800 bps
C39_Witness ==
    /\ Succeeded("Exchange")
    /\ last.a.taker = last.a.initializer_main
    /\ metadata[last.a.mint].readable
    /\ metadata[last.a.mint].seller_fee_basis_points = 9800
    /\ StoredPrice = 0
    /\ token[last.a.dest].amount = 1

(***************************************************************************)
(* The program's errors (error.rs)                                         *)
(***************************************************************************)
\* error.rs:5-45: the variants of EscrowError in their order of declaration
EscrowError ==
    << "InvalidInstruction", "NotRentExempt", "ExpectedAmountMismatch",
       "AmountOverflow", "InvalidSalesTaxRecipient", "NumericConversionFailed",
       "InvalidMintAccount", "InvalidTokenAmount", "InvalidMetadata",
       "MissingMetadata", "InvalidFinalAmount", "InvalidRoyaltyFee",
       "CreatorMismatch" >>

\* the variants numbered from 1
Discriminant_FromOne(e) == CHOOSE i \in 1..Len(EscrowError) : EscrowError[i] = e

\* `e as u32`: a variant without explicit discriminant has the number of
\* variants declared before it
Discriminant(e) == (CHOOSE i \in 1..Len(EscrowError) : EscrowError[i] = e) - 1

\* error.rs:47-51: From<EscrowError> for ProgramError
ProgramError_from(e) == [kind |-> "Custom", code |-> Discriminant(e)]

\* what the caller sees of a failed invocation: the program's own errors
\* through `.into()`, the others as they are
Surfaced(result) ==
    IF \E i \in 1..Len(EscrowError) : EscrowError[i] = result
    THEN ProgramError_from(result)
    ELSE [kind |-> result, code |-> 0]

(***************************************************************************)
(* C40                                                                     *)
(***************************************************************************)
\* the codes as listed
C40_Code ==
    [InvalidInstruction |-> 0, NotRentExempt |-> 1, ExpectedAmountMismatch |-> 2,
     AmountOverflow |-> 3, InvalidSalesTaxRecipient |-> 4,
     NumericConversionFailed |-> 5, InvalidMintAccount |-> 6,
     InvalidTokenAmount |-> 7, InvalidMetadata |-> 8, MissingMetadata |-> 9,
     InvalidFinalAmount |-> 10, InvalidRoyaltyFee |-> 11, CreatorMismatch |-> 12]

\* C40: each program-specific error is surfaced as Custom(code) with the code
\* listed for it, which is its position in the enumeration; the listing
\* covers every variant, no two variants share a code, and every failed
\* invocation that ends in one of them shows the caller that code.
C40_StableCodes ==
    /\ DOMAIN C40_Code = {EscrowError[i] : i \in 1..Len(EscrowError)}
    /\ \A e \in DOMAIN C40_Code :
          ProgramError_from(e) = [kind |-> "Custom", code |-> C40_Code[e]]
    /\ \A i \in 1..Len(EscrowError) : Discriminant(EscrowError[i]) = i - 1
    /\ \A e, f \in DOMAIN C40_Code :
          ProgramError_from(e) = ProgramError_from(f) => e = f
    /\ (Invoked /\ last.result \in DOMAIN C40_Code)
          => Surfaced(last.result) = [kind |-> "Custom", code |-> C40_Code[last.result]]
    /\ (Invoked /\ last.result \notin DOMAIN C40_Code)
          => Surfaced(last.result).kind # "Custom"

\* an InitEscrow on an underfunded record has failed with NotRentExempt,
\* which the caller sees as Custom(1)
C40_Witness ==
    /\ last.op = "InitEscrow"
    /\ last.result = "NotRentExempt"
    /\ Surfaced(last.result) = [kind |-> "Custom", code |-> 1]

====
